---- MODULE Spec2Model ----
(***************************************************************************)
(* hono-auto-docs: the discovery-and-merge pipeline (runGenerate), route   *)
(* discovery (discoverRoutesFromApp), group normalisation                  *)
(* (normalizeApiGroup) and the filename conventions.                       *)
(*                                                                         *)
(* Strings of the program are sequences of one-character strings, so that  *)
(* the regular expressions, splits and joins of the code are computed      *)
(* character by character.                                                 *)
(***************************************************************************)
EXTENDS Integers, Sequences, FiniteSets, TLC

VARIABLES
    pc,             \* control point of the run, or of the function applied
    arg,            \* the input: a configuration file, an entry module, a filename
    ret,            \* its result
    config,         \* the loaded configuration (runGenerate)
    ioLog,          \* file I/O and collaborator calls of the run, in order
    normalizedApis, \* runGenerate: normalizedApis
    disk,           \* the fragment files under output/openapi
    merged,         \* runGenerate: merged (tags, paths)
    gi,             \* index of the current group in the two for-of loops
    output,         \* what has been written to outputs.openApiJson, in order
    err             \* the error the run ended with, "" while there is none

vars == <<pc, arg, ret, config, ioLog, normalizedApis, disk, merged, gi, output, err>>

runVars == <<config, ioLog, normalizedApis, disk, merged, gi, output, err>>

----------------------------------------------------------------------------
(* JavaScript values *)

\* undefined and null, as values distinct from every string
Undefined == <<"\\undefined">>
Null == <<"\\null">>

\* truthiness of a string-or-undefined value: "" and undefined are falsy
Truthy(v) == v # Undefined /\ v # Null /\ v # <<>>

\* a || b
Or(a, b) == IF Truthy(a) THEN a ELSE b

LowerLetters == <<"a","b","c","d","e","f","g","h","i","j","k","l","m",
                  "n","o","p","q","r","s","t","u","v","w","x","y","z">>
UpperLetters == <<"A","B","C","D","E","F","G","H","I","J","K","L","M",
                  "N","O","P","Q","R","S","T","U","V","W","X","Y","Z">>
Digits == {"0","1","2","3","4","5","6","7","8","9"}

IsUpper(c) == \E i \in DOMAIN UpperLetters : UpperLetters[i] = c
IsLower(c) == \E i \in DOMAIN LowerLetters : LowerLetters[i] = c
IsAlnum(c) == IsUpper(c) \/ IsLower(c) \/ c \in Digits

IndexIn(tbl, c) == CHOOSE i \in DOMAIN tbl : tbl[i] = c

\* String.prototype.toUpperCase / toLowerCase, per character
UpperChar(c) == IF IsLower(c) THEN UpperLetters[IndexIn(LowerLetters, c)] ELSE c
LowerChar(c) == IF IsUpper(c) THEN LowerLetters[IndexIn(UpperLetters, c)] ELSE c
toUpperCase(s) == [i \in DOMAIN s |-> UpperChar(s[i])]
toLowerCase(s) == [i \in DOMAIN s |-> LowerChar(s[i])]

\* s.startsWith(p), s.endsWith(p)
startsWith(s, p) == Len(s) >= Len(p) /\ SubSeq(s, 1, Len(p)) = p
endsWith(s, p) == Len(s) >= Len(p) /\ SubSeq(s, Len(s) - Len(p) + 1, Len(s)) = p

\* s.slice(k) with 0-based k
sliceFrom(s, k) == SubSeq(s, k + 1, Len(s))

RECURSIVE JoinWith(_, _)
\* Array.prototype.join(sep)
JoinWith(words, sep) ==
    IF words = <<>> THEN <<>>
    ELSE IF Len(words) = 1 THEN words[1]
    ELSE words[1] \o sep \o JoinWith(Tail(words), sep)

NonEmpty(w) == Len(w) > 0

Includes(s, x) == \E i \in DOMAIN s : s[i] = x

----------------------------------------------------------------------------
(* node:path (posix) *)

Slash == <<"/">>

RECURSIVE SplitOn(_, _, _, _)
\* s.split(sep) for a one-character separator: cur is the piece being read
SplitOn(s, sep, cur, acc) ==
    IF s = <<>> THEN Append(acc, cur)
    ELSE IF Head(s) = sep THEN SplitOn(Tail(s), sep, <<>>, Append(acc, cur))
    ELSE SplitOn(Tail(s), sep, Append(cur, Head(s)), acc)

Segments(p) == SplitOn(p, "/", <<>>, <<>>)

DotSeg == <<".">>
DotDotSeg == <<".", ".">>

RECURSIVE normalizeString(_, _, _)
\* normalizeString of node:path: drops "" and "." segments; ".." removes the
\* segment before it, and is kept only where allowAboveRoot and nothing is left
normalizeString(segs, allowAboveRoot, res) ==
    IF segs = <<>> THEN res
    ELSE LET seg == Head(segs)
         IN  IF seg = <<>> \/ seg = DotSeg
             THEN normalizeString(Tail(segs), allowAboveRoot, res)
             ELSE IF seg = DotDotSeg
             THEN IF res # <<>> /\ res[Len(res)] # DotDotSeg
                  THEN normalizeString(Tail(segs), allowAboveRoot,
                                       SubSeq(res, 1, Len(res) - 1))
                  ELSE IF allowAboveRoot
                  THEN normalizeString(Tail(segs), allowAboveRoot, Append(res, seg))
                  ELSE normalizeString(Tail(segs), allowAboveRoot, res)
             ELSE normalizeString(Tail(segs), allowAboveRoot, Append(res, seg))

isAbsolute(p) == Len(p) > 0 /\ p[1] = "/"

\* path.posix.normalize
normalize(p) ==
    IF p = <<>> THEN DotSeg
    ELSE LET abs == isAbsolute(p)
             trailingSeparator == p[Len(p)] = "/"
             body == JoinWith(normalizeString(Segments(p), ~abs, <<>>), Slash)
         IN  IF body = <<>>
             THEN (IF abs THEN Slash ELSE IF trailingSeparator THEN <<".", "/">> ELSE DotSeg)
             ELSE (IF abs THEN Slash ELSE <<>>) \o body
                  \o (IF trailingSeparator THEN Slash ELSE <<>>)

\* path.posix.join(a, b)
join(a, b) ==
    LET parts == SelectSeq(<<a, b>>, NonEmpty)
    IN  IF parts = <<>> THEN DotSeg ELSE normalize(JoinWith(parts, Slash))

\* path.posix.join(a, b, c)
join3(a, b, c) ==
    LET parts == SelectSeq(<<a, b, c>>, NonEmpty)
    IN  IF parts = <<>> THEN DotSeg ELSE normalize(JoinWith(parts, Slash))

RECURSIVE StripTrailingSlashes(_)
\* s.replace(/\/+$/, "")
StripTrailingSlashes(s) ==
    IF s # <<>> /\ s[Len(s)] = "/"
    THEN StripTrailingSlashes(SubSeq(s, 1, Len(s) - 1))
    ELSE s

RECURSIVE StripLeadingSlashes(_)
\* s.replace(/^\/+/, "")
StripLeadingSlashes(s) ==
    IF s # <<>> /\ s[1] = "/" THEN StripLeadingSlashes(Tail(s)) ELSE s

\* path.resolve(dir, p) for an absolute dir: the normalized absolute path,
\* without a trailing slash unless it is the root
resolve(dir, p) ==
    LET joined == IF isAbsolute(p) THEN p ELSE dir \o Slash \o p
        body == JoinWith(normalizeString(Segments(joined), FALSE, <<>>), Slash)
    IN  Slash \o body

\* index of the last "/" of p, 0 when there is none
LastSlash(p) ==
    IF \E i \in DOMAIN p : p[i] = "/"
    THEN CHOOSE i \in DOMAIN p : p[i] = "/" /\ \A j \in DOMAIN p : p[j] = "/" => j <= i
    ELSE 0

\* path.dirname(p) of a path without trailing slash
dirname(p) ==
    LET k == LastSlash(p)
    IN  IF k = 0 THEN DotSeg ELSE IF k = 1 THEN Slash ELSE SubSeq(p, 1, k - 1)

\* path.basename(p)
basename(p) ==
    LET q == StripTrailingSlashes(p)
    IN  SubSeq(q, LastSlash(q) + 1, Len(q))

RECURSIVE CommonLen(_, _)
CommonLen(a, b) ==
    IF a = <<>> \/ b = <<>> \/ Head(a) # Head(b) THEN 0
    ELSE 1 + CommonLen(Tail(a), Tail(b))

\* path.relative(from, to) of two absolute, normalized paths
relative(from, to) ==
    LET f == normalizeString(Segments(from), FALSE, <<>>)
        t == normalizeString(Segments(to), FALSE, <<>>)
        k == CommonLen(f, t)
        ups == [i \in 1..(Len(f) - k) |-> DotDotSeg]
    IN  JoinWith(ups \o SubSeq(t, k + 1, Len(t)), Slash)

----------------------------------------------------------------------------
(* src/utils/normalizeApiGroup.ts: the filename conventions *)

ExtTs == <<".", "t", "s">>
ExtJs == <<".", "j", "s">>

\* filename.replace(/\.(ts|js)$/, "")
RemoveTsJs(filename) ==
    IF endsWith(filename, ExtTs) \/ endsWith(filename, ExtJs)
    THEN SubSeq(filename, 1, Len(filename) - 3)
    ELSE filename

\* One sticky match of /[-_]|(?=[A-Z])/ at 0-based position q of S:
\* the end index of the match, or -1 when the expression does not match there.
SplitMatcher(S, q) ==
    LET c == S[q + 1]
    IN  IF c \in {"-", "_"} THEN q + 1
        ELSE IF IsUpper(c) THEN q
        ELSE -1

RECURSIVE SplitLoop(_, _, _, _)
\* The loop of RegExp.prototype[@@split]: p is the start of the current piece,
\* q the position probed; an empty match at the start of the piece is skipped.
SplitLoop(S, p, q, acc) ==
    IF q >= Len(S) THEN Append(acc, SubSeq(S, p + 1, Len(S)))
    ELSE LET e == SplitMatcher(S, q)
         IN  IF e = -1 \/ e = p
             THEN SplitLoop(S, p, q + 1, acc)
             ELSE SplitLoop(S, e, e, Append(acc, SubSeq(S, p + 1, q)))

\* nameWithoutExt.split(/[-_]|(?=[A-Z])/)
SplitWords(S) == IF S = <<>> THEN << <<>> >> ELSE SplitLoop(S, 0, 0, <<>>)

\* word.charAt(0).toUpperCase() + word.slice(1).toLowerCase()
CapitalizeWord(word) ==
    toUpperCase(SubSeq(word, 1, 1)) \o toLowerCase(sliceFrom(word, 1))

generateNameFromFilename(filename) ==
    LET nameWithoutExt == RemoveTsJs(filename)
        words == SelectSeq(SplitWords(nameWithoutExt), NonEmpty)
    IN  JoinWith([i \in DOMAIN words |-> CapitalizeWord(words[i])], <<" ">>)

generatePrefixFromFilename(filename) ==
    LET nameWithoutExt == RemoveTsJs(filename)
    IN  <<"/">> \o nameWithoutExt

----------------------------------------------------------------------------
(* The ts-morph view of a source file.

   A source file is a record
     [filePath, imports, statements, decls]
   imports:    << [named: <<identifier>>, moduleSpecifier] >>
   statements: << chain >>, a chain being the calls of one expression
               statement in the order they are written:
               a.route(x).route(y) is << call x, call y >>
   decls:      the variable declarations, each
               [name, honoInit, jsDocs, chain]
   a jsDoc is [description, tags: << [tagName, comment] >>]               *)

UndefinedList == << Undefined >>

\* tags.find((tag) => tag.getTagName() === name): the first such tag
HasTag(tags, name) == \E i \in DOMAIN tags : tags[i].tagName = name
FindTag(tags, name) ==
    tags[CHOOSE i \in DOMAIN tags :
            /\ tags[i].tagName = name
            /\ \A j \in DOMAIN tags : tags[j].tagName = name => i <= j]

NoMetadata == [prefix |-> Undefined, name |-> Undefined]

\* the annotation read from the first builder value that has a doc-comment
extractRouteMetadataFirstDocumented(sourceFile) ==
    LET Documented(decl) == decl.honoInit /\ Len(decl.jsDocs) > 0
        appExports == SelectSeq(sourceFile.decls, Documented)
    IN  IF Len(appExports) = 0 THEN NoMetadata
        ELSE LET tags == appExports[1].jsDocs[1].tags
             IN  [prefix |-> IF HasTag(tags, "prefix")
                             THEN FindTag(tags, "prefix").comment ELSE Undefined,
                  name |-> IF HasTag(tags, "name")
                           THEN FindTag(tags, "name").comment ELSE Undefined]

\* extractRouteMetadata(sourceFile)
extractRouteMetadata(sourceFile) ==
    LET HonoInit(decl) == decl.honoInit
        appExports == SelectSeq(sourceFile.decls, HonoInit)
    IN  IF Len(appExports) = 0 THEN NoMetadata
        ELSE LET jsDocs == appExports[1].jsDocs
             IN  IF Len(jsDocs) = 0 THEN NoMetadata
                 ELSE LET tags == jsDocs[1].tags
                      IN  [prefix |-> IF HasTag(tags, "prefix")
                                      THEN FindTag(tags, "prefix").comment
                                      ELSE Undefined,
                           name |-> IF HasTag(tags, "name")
                                    THEN FindTag(tags, "name").comment
                                    ELSE Undefined]

\* An ApiGroup; api is the list of per-operation overrides, empty when the
\* group has none
ApiGroup(apiPrefix, appTypePath, name, api) ==
    [apiPrefix |-> apiPrefix, appTypePath |-> appTypePath, name |-> name, api |-> api]

\* The argument of normalizeApiGroup: a bare module-path string, or a group
StringApi(p) == [isString |-> TRUE, group |-> ApiGroup(Undefined, p, Undefined, <<>>)]
GroupApi(g) == [isString |-> FALSE, group |-> g]

\* the prefix of the module's annotation given to a discovered group as well
normalizeApiGroupAnnotationPrefix(api, project, rootPath) ==
    IF ~api.isString /\ Truthy(api.group.name) THEN api.group
    ELSE LET appTypePath == api.group.appTypePath
             filename == basename(appTypePath)
             routeMetadata == extractRouteMetadata(project[join(rootPath, appTypePath)])
             name == Or(routeMetadata.name, generateNameFromFilename(filename))
             apiPrefix == Or(routeMetadata.prefix, generatePrefixFromFilename(filename))
         IN  IF api.isString
             THEN ApiGroup(apiPrefix, appTypePath, name, <<>>)
             ELSE [api.group EXCEPT !.name = name, !.apiPrefix = apiPrefix]

\* the filename convention taken before the annotation of the module
normalizeApiGroupFilenameFirst(api, project, rootPath) ==
    IF ~api.isString /\ Truthy(api.group.name) THEN api.group
    ELSE LET appTypePath == api.group.appTypePath
             filename == basename(appTypePath)
             fullPath == join(rootPath, appTypePath)
             routeMetadata == extractRouteMetadata(project[fullPath])
             name == Or(generateNameFromFilename(filename), routeMetadata.name)
         IN  IF api.isString
             THEN ApiGroup(Or(generatePrefixFromFilename(filename), routeMetadata.prefix),
                           appTypePath, name, <<>>)
             ELSE [api.group EXCEPT !.name = name]

\* normalizeApiGroup(api, project, rootPath); project maps the absolute path
\* of every file of the source tree to its source file
normalizeApiGroup(api, project, rootPath) ==
    IF ~api.isString /\ Truthy(api.group.name) THEN api.group
    ELSE LET appTypePath == api.group.appTypePath
             filename == basename(appTypePath)
             fullPath == join(rootPath, appTypePath)
             routeMetadata == extractRouteMetadata(project[fullPath])
             name == Or(routeMetadata.name, generateNameFromFilename(filename))
         IN  IF api.isString
             THEN ApiGroup(Or(routeMetadata.prefix, generatePrefixFromFilename(filename)),
                           appTypePath, name, <<>>)
             ELSE [api.group EXCEPT !.name = name]

\* project.getSourceFile(p) || project.addSourceFileAtPath(p) throws when no
\* file is at p
CanLoad(api, project, rootPath) ==
    (~api.isString /\ Truthy(api.group.name))
    \/ join(rootPath, api.group.appTypePath) \in DOMAIN project

----------------------------------------------------------------------------
(* utils/discoverRoutesFromApp.ts: module resolution.

   The file system is a record [files, tsConfig]: files is the set of the
   existing absolute paths, tsConfig the parsed content of the tsconfig file
   [parsed, hasPaths, paths: << [alias, targets] >>, baseUrl], with parsed
   FALSE when the file is missing or does not parse.                       *)

existsSync(fs, p) == p \in fs.files

NoTsConfig == [parsed |-> FALSE, hasPaths |-> FALSE, paths |-> <<>>, baseUrl |-> Undefined]

\* loadTsConfig(tsConfigPath): the try/catch yields null for every failure
loadTsConfig(fs, tsConfigPath) == fs.tsConfig

StarAt(s) == IF Includes(s, "*") THEN CHOOSE i \in DOMAIN s : s[i] = "*" ELSE 0

\* importPath.match(new RegExp("^" + alias.replace(/\*/g, "(.*)") + "$")),
\* for an alias of literal characters and at most one "*"
AliasMatches(alias, importPath) ==
    LET k == StarAt(alias)
    IN  IF k = 0 THEN alias = importPath
        ELSE /\ Len(importPath) >= Len(alias) - 1
             /\ startsWith(importPath, SubSeq(alias, 1, k - 1))
             /\ endsWith(importPath, SubSeq(alias, k + 1, Len(alias)))

\* match[1] || ""
AliasCapture(alias, importPath) ==
    LET k == StarAt(alias)
    IN  IF k = 0 THEN <<>>
        ELSE SubSeq(importPath, k, Len(importPath) - (Len(alias) - k))

RECURSIVE ReplaceStars(_, _)
\* target.replace(/\*/g, capture)
ReplaceStars(target, capture) ==
    IF target = <<>> THEN <<>>
    ELSE (IF Head(target) = "*" THEN capture ELSE <<Head(target)>>)
         \o ReplaceStars(Tail(target), capture)

\* the literal path probed before the path with ".ts"
ProbeLiteralFirst(fs, candidate) ==
    IF existsSync(fs, candidate) THEN candidate
    ELSE IF existsSync(fs, candidate \o ExtTs) THEN candidate \o ExtTs
    ELSE Null

\* The two probes of one candidate path, in the order of the code
Probe(fs, candidate) ==
    IF existsSync(fs, candidate \o ExtTs) THEN candidate \o ExtTs
    ELSE IF existsSync(fs, candidate) THEN candidate
    ELSE Null

RECURSIVE TryTargets(_, _, _, _)
\* the inner loop of resolvePathAlias over the targets of a matching alias
TryTargets(fs, targets, capture, base) ==
    IF targets = <<>> THEN Null
    ELSE LET fullPath == join(base, ReplaceStars(Head(targets), capture))
             found == Probe(fs, fullPath)
         IN  IF found # Null THEN found
             ELSE TryTargets(fs, Tail(targets), capture, base)

RECURSIVE TryAliases(_, _, _, _)
\* the outer loop of resolvePathAlias over Object.entries(paths)
TryAliases(fs, importPath, paths, base) ==
    IF paths = <<>> THEN Null
    ELSE LET entry == Head(paths)
             found == IF AliasMatches(entry.alias, importPath)
                      THEN TryTargets(fs, entry.targets,
                                      AliasCapture(entry.alias, importPath), base)
                      ELSE Null
         IN  IF found # Null THEN found
             ELSE TryAliases(fs, importPath, Tail(paths), base)

resolvePathAlias(fs, importPath, paths, rootPath, baseUrl) ==
    LET base == IF Truthy(baseUrl) THEN join(rootPath, baseUrl) ELSE rootPath
    IN  TryAliases(fs, importPath, paths, base)

SrcDir == <<"s", "r", "c">>

\* a relative specifier that is not found handed on to the alias table and
\* the source directory
resolveImportPathFallsThrough(fs, currentFilePath, importPath, rootPath, tsConfigPath) ==
    LET relativeHit == IF startsWith(importPath, <<".">>)
                       THEN Probe(fs, resolve(dirname(currentFilePath), importPath))
                       ELSE Null
        tsConfig == IF Truthy(tsConfigPath) THEN loadTsConfig(fs, tsConfigPath)
                    ELSE NoTsConfig
        aliased == IF tsConfig.parsed /\ tsConfig.hasPaths
                   THEN resolvePathAlias(fs, importPath, tsConfig.paths,
                                         rootPath, tsConfig.baseUrl)
                   ELSE Null
    IN  IF relativeHit # Null THEN relativeHit
        ELSE IF aliased # Null THEN aliased
        ELSE Probe(fs, join3(rootPath, SrcDir, importPath))

\* resolveImportPath(currentFilePath, importPath, rootPath, tsConfigPath)
resolveImportPath(fs, currentFilePath, importPath, rootPath, tsConfigPath) ==
    IF startsWith(importPath, <<".">>)
    THEN Probe(fs, resolve(dirname(currentFilePath), importPath))
    ELSE LET tsConfig == IF Truthy(tsConfigPath)
                            /\ (startsWith(importPath, <<"~">>)
                                \/ startsWith(importPath, <<"@">>))
                         THEN loadTsConfig(fs, tsConfigPath)
                         ELSE NoTsConfig
             aliased == IF tsConfig.parsed /\ tsConfig.hasPaths
                        THEN resolvePathAlias(fs, importPath, tsConfig.paths,
                                              rootPath, tsConfig.baseUrl)
                        ELSE Null
         IN  IF aliased # Null THEN aliased
             ELSE Probe(fs, join3(rootPath, SrcDir, importPath))

\* sourceFile.getImportDeclaration(decl => decl.getNamedImports()
\*     .some(imp => imp.getName() === appName)): the first such declaration
HasNamedImport(sourceFile, appName) ==
    \E i \in DOMAIN sourceFile.imports : Includes(sourceFile.imports[i].named, appName)
FirstNamedImport(sourceFile, appName) ==
    sourceFile.imports[CHOOSE i \in DOMAIN sourceFile.imports :
        /\ Includes(sourceFile.imports[i].named, appName)
        /\ \A j \in DOMAIN sourceFile.imports :
              Includes(sourceFile.imports[j].named, appName) => i <= j]

\* resolveRouteImport(sourceFile, appName, rootPath, tsConfigPath)
resolveRouteImport(fs, sourceFile, appName, rootPath, tsConfigPath) ==
    IF ~HasNamedImport(sourceFile, appName) THEN Null
    ELSE resolveImportPath(fs, sourceFile.filePath,
                           FirstNamedImport(sourceFile, appName).moduleSpecifier,
                           rootPath, tsConfigPath)

----------------------------------------------------------------------------
(* utils/discoverRoutesFromApp.ts: the mount calls of the entry module *)

RECURSIVE Reverse(_)
Reverse(s) == IF s = <<>> THEN <<>> ELSE Append(Reverse(Tail(s)), Head(s))

RECURSIVE CallDescendants(_)
\* sourceFile.getDescendantsOfKind(SyntaxKind.CallExpression): a node comes
\* before its descendants, and the call written last in a chain is the
\* outermost node of the chain (the earlier calls are inside its callee)
CallDescendants(statements) ==
    IF statements = <<>> THEN <<>>
    ELSE Reverse(Head(statements)) \o CallDescendants(Tail(statements))

\* the tail of call.getExpression().getText(): the receiver ends with "."
\* and the method name
ExpressionTail(call) == <<".">> \o call.method

DotRoute == <<".", "r", "o", "u", "t", "e">>

RECURSIVE RemoveQuotes(_)
\* text.replace(/['"]/g, "")
RemoveQuotes(text) ==
    IF text = <<>> THEN <<>>
    ELSE (IF Head(text) \in {"'", "\""} THEN <<>> ELSE <<Head(text)>>)
         \o RemoveQuotes(Tail(text))

RECURSIVE RouteCallsLoop(_, _)
\* the for-of loop of extractRouteCalls
RouteCallsLoop(calls, routes) ==
    IF calls = <<>> THEN routes
    ELSE LET call == Head(calls)
         IN  IF ~endsWith(ExpressionTail(call), DotRoute)
             THEN RouteCallsLoop(Tail(calls), routes)
             ELSE IF Len(call.args) < 2
             THEN RouteCallsLoop(Tail(calls), routes)
             ELSE RouteCallsLoop(Tail(calls),
                     Append(routes, [prefix |-> RemoveQuotes(call.args[1]),
                                     appName |-> call.args[2],
                                     appTypePath |-> <<>>]))

extractRouteCalls(sourceFile) ==
    RouteCallsLoop(CallDescendants(sourceFile.statements), <<>>)

RECURSIVE DiscoverLoopStopsAtUnresolved(_, _, _, _, _, _)
\* DiscoverLoop with the skip of an unresolved mount call turned into a return
DiscoverLoopStopsAtUnresolved(fs, sourceFile, routes, rootPath, tsConfigPath, apiGroups) ==
    IF routes = <<>> THEN apiGroups
    ELSE LET route == Head(routes)
             routeFilePath == resolveRouteImport(fs, sourceFile, route.appName,
                                                 rootPath, tsConfigPath)
         IN  IF routeFilePath = Null THEN apiGroups
             ELSE DiscoverLoopStopsAtUnresolved(fs, sourceFile, Tail(routes),
                     rootPath, tsConfigPath,
                     Append(apiGroups,
                            ApiGroup(route.prefix, relative(rootPath, routeFilePath),
                                     <<>>, <<>>)))

RECURSIVE DiscoverLoop(_, _, _, _, _, _)
\* the for-of loop of discoverRoutesFromApp
DiscoverLoop(fs, sourceFile, routes, rootPath, tsConfigPath, apiGroups) ==
    IF routes = <<>> THEN apiGroups
    ELSE LET route == Head(routes)
             routeFilePath == resolveRouteImport(fs, sourceFile, route.appName,
                                                 rootPath, tsConfigPath)
         IN  DiscoverLoop(fs, sourceFile, Tail(routes), rootPath, tsConfigPath,
                 IF routeFilePath # Null
                 THEN Append(apiGroups,
                             ApiGroup(route.prefix, relative(rootPath, routeFilePath),
                                      <<>>, <<>>))
                 ELSE apiGroups)

\* discoverRoutesFromApp(project, appPath, rootPath, tsConfigPath), the
\* entry module being loadable
discoverRoutesFromApp(fs, project, appPath, rootPath, tsConfigPath) ==
    LET sourceFile == project[join(rootPath, appPath)]
    IN  DiscoverLoop(fs, sourceFile, extractRouteCalls(sourceFile),
                     rootPath, tsConfigPath, <<>>)

----------------------------------------------------------------------------
(* JavaScript Map and plain objects: the entries in insertion order *)

MapHas(m, k) == \E i \in DOMAIN m : m[i].key = k
MapIndex(m, k) == CHOOSE i \in DOMAIN m : m[i].key = k
MapGet(m, k) == m[MapIndex(m, k)].value

\* m.set(k, v), obj[k] = v: an existing key keeps its place
MapSet(m, k, v) ==
    IF MapHas(m, k)
    THEN [m EXCEPT ![MapIndex(m, k)] = [key |-> k, value |-> v]]
    ELSE Append(m, [key |-> k, value |-> v])

----------------------------------------------------------------------------
(* utils/extractJsDoc.ts *)

IsSpace(c) == c \in {" ", "\n", "\t"}

RECURSIVE TrimStart(_)
TrimStart(s) == IF s # <<>> /\ IsSpace(Head(s)) THEN TrimStart(Tail(s)) ELSE s

RECURSIVE TrimEnd(_)
TrimEnd(s) ==
    IF s # <<>> /\ IsSpace(s[Len(s)]) THEN TrimEnd(SubSeq(s, 1, Len(s) - 1)) ELSE s

\* String.prototype.trim
trim(s) == TrimEnd(TrimStart(s))

\* tagsStr.split(",").map((t) => t.trim()).filter((t) => t.length > 0)
SplitTags(tagsStr) ==
    LET parts == SplitOn(tagsStr, ",", <<>>, <<>>)
    IN  SelectSeq([i \in DOMAIN parts |-> trim(parts[i])], NonEmpty)

JsDocMetadata(summary, description, tags) ==
    [summary |-> summary, description |-> description, tags |-> tags]

\* parseJsDocTags(jsDoc)
parseJsDocTags(jsDoc) ==
    LET mainComment == jsDoc.description
        fromMain == IF Truthy(mainComment) /\ Truthy(trim(mainComment))
                    THEN trim(mainComment) ELSE Undefined
        summary == IF HasTag(jsDoc.tags, "summary")
                   THEN FindTag(jsDoc.tags, "summary").comment ELSE Undefined
        description == IF HasTag(jsDoc.tags, "description")
                       THEN FindTag(jsDoc.tags, "description").comment ELSE fromMain
        tagsStr == IF HasTag(jsDoc.tags, "tags")
                   THEN FindTag(jsDoc.tags, "tags").comment ELSE Undefined
    IN  JsDocMetadata(summary, description,
                      IF Truthy(tagsStr) THEN SplitTags(tagsStr) ELSE UndefinedList)

\* sourceFile.getVariableDeclaration(name): the first declaration of the name
HasDeclaration(sourceFile, name) ==
    \E i \in DOMAIN sourceFile.decls : sourceFile.decls[i].name = name
GetDeclaration(sourceFile, name) ==
    sourceFile.decls[CHOOSE i \in DOMAIN sourceFile.decls :
        /\ sourceFile.decls[i].name = name
        /\ \A j \in DOMAIN sourceFile.decls : sourceFile.decls[j].name = name => i <= j]

\* extractJsDocFromHandler(sourceFile, handlerName) is not null
HasHandlerJsDoc(sourceFile, handlerName) ==
    /\ HasDeclaration(sourceFile, handlerName)
    /\ Len(GetDeclaration(sourceFile, handlerName).jsDocs) > 0

\* extractJsDocFromHandler(sourceFile, handlerName), when it is not null
extractJsDocFromHandler(sourceFile, handlerName) ==
    parseJsDocTags(GetDeclaration(sourceFile, handlerName).jsDocs[1])

\* the length of the longest run of whitespace that starts at position i
SpaceRun(s, i) ==
    CHOOSE n \in 0..(Len(s) - i + 1) :
        /\ \A k \in i..(i + n - 1) : IsSpace(s[k])
        /\ (i + n > Len(s) \/ ~IsSpace(s[i + n]))

\* the length of the longest run of characters outside stops that starts
\* at position i
CaptureRun(s, i, stops) ==
    CHOOSE n \in 0..(Len(s) - i + 1) :
        /\ \A k \in i..(i + n - 1) : s[k] \notin stops
        /\ (i + n > Len(s) \/ s[i + n] \in stops)

MatchAt(s, i, w) == i + Len(w) - 1 <= Len(s) /\ SubSeq(s, i, i + Len(w) - 1) = w

\* the number of whitespace characters \s+ takes after the marker at
\* position i so that the capture that follows is not empty: the largest
\* such number, 0 if there is none
MarkerSpaces(content, i, marker, stops) ==
    LET j == i + Len(marker) + 1
        ws == SpaceRun(content, j)
        Fits(k) == j + k <= Len(content) /\ content[j + k] \notin stops
    IN  IF ~MatchAt(content, i, <<"@">> \o marker) THEN 0
        ELSE IF \E k \in 1..ws : Fits(k)
        THEN CHOOSE k \in 1..ws : Fits(k) /\ \A l \in (k + 1)..ws : ~Fits(l)
        ELSE 0

\* commentContent.match(/@marker\s+([^stops]+)/): the capture group of the
\* first match, Null without a match
MarkerMatch(content, marker, stops) ==
    LET Matches(i) == MarkerSpaces(content, i, marker, stops) > 0
    IN  IF \E i \in DOMAIN content : Matches(i)
        THEN LET i == CHOOSE p \in DOMAIN content :
                          Matches(p) /\ \A q \in 1..(p - 1) : ~Matches(q)
                 start == i + Len(marker) + 1 + MarkerSpaces(content, i, marker, stops)
             IN  SubSeq(content, start, start + CaptureRun(content, start, stops) - 1)
        ELSE Null

\* [^\n@] and [^\n]
NewlineOrAt == {"\n", "@"}
Newline == {"\n"}

\* line.replace(/^\s*\*?\s*/, '').trim()
StripCommentLine(line) ==
    LET unindented == TrimStart(line)
        unstarred == IF unindented # <<>> /\ Head(unindented) = "*"
                     THEN Tail(unindented) ELSE unindented
    IN  trim(TrimStart(unstarred))

RECURSIVE LinesBeforeMarker(_)
\* the lines before the first line that starts with "@"
LinesBeforeMarker(lines) ==
    IF lines = <<>> \/ Head(Head(lines)) = "@" THEN <<>>
    ELSE <<Head(lines)>> \o LinesBeforeMarker(Tail(lines))

\* extractLeadingJsDocComment(fullText), from the /** */ blocks of the text
\* on; blocks holds their contents in textual order
extractLeadingJsDocComment(blocks) ==
    IF blocks = <<>> THEN Null
    ELSE LET commentContent == blocks[Len(blocks)]
             split == SplitOn(commentContent, "\n", <<>>, <<>>)
             lines == SelectSeq([i \in DOMAIN split |-> StripCommentLine(split[i])], NonEmpty)
             descLines == LinesBeforeMarker(lines)
             summaryMatch == MarkerMatch(commentContent, <<"s", "u", "m", "m", "a", "r", "y">>, NewlineOrAt)
             descTagMatch == MarkerMatch(commentContent, <<"d", "e", "s", "c", "r", "i", "p", "t", "i", "o", "n">>, NewlineOrAt)
             tagsMatch == MarkerMatch(commentContent, <<"t", "a", "g", "s">>, Newline)
         IN  JsDocMetadata(
                 IF summaryMatch # Null THEN trim(summaryMatch) ELSE Undefined,
                 IF descTagMatch # Null THEN trim(descTagMatch)
                 ELSE IF Len(descLines) > 0 THEN trim(JoinWith(descLines, <<" ">>))
                 ELSE Undefined,
                 IF tagsMatch # Null THEN SplitTags(trim(tagsMatch)) ELSE UndefinedList)

----------------------------------------------------------------------------
(* utils/traceHandlers.ts *)

\* traceHandlerImport(sourceFile, handlerName, rootPath, tsConfigPath)
traceHandlerImport(fs, sourceFile, handlerName, rootPath, tsConfigPath) ==
    IF ~HasNamedImport(sourceFile, handlerName) THEN Null
    ELSE resolveImportPath(fs, sourceFile.filePath,
                           FirstNamedImport(sourceFile, handlerName).moduleSpecifier,
                           rootPath, tsConfigPath)

HttpMethods == { <<"g", "e", "t">>, <<"p", "o", "s", "t">>, <<"p", "u", "t">>, <<"p", "a", "t", "c", "h">>, <<"d", "e", "l", "e", "t", "e">> }

\* expressionText.match(/\.(get|post|put|patch|delete)$/)
MethodMatch(call) == \E m \in HttpMethods : endsWith(ExpressionTail(call), <<".">> \o m)
MatchedMethod(call) ==
    CHOOSE m \in HttpMethods : endsWith(ExpressionTail(call), <<".">> \o m)

\* the normalisation of the path argument in parseMethodChain
NormalizeRoutePath(text) ==
    LET routePath == RemoveQuotes(text)
    IN  IF routePath = Slash THEN routePath
        ELSE LET inner == StripTrailingSlashes(StripLeadingSlashes(routePath))
             IN  IF inner # <<>> THEN Slash \o inner ELSE Slash

Spread == <<".", ".", ".">>

IsSpreadArg(argText) == startsWith(argText, Spread)

HandlerKey(method, routePath) == method \o <<" ">> \o routePath

RECURSIVE MethodChainLoop(_, _, _, _, _, _, _)
\* the for-of loop of parseMethodChain over the call expressions of the chain
MethodChainLoop(fs, project, calls, sourceFile, metadataMap, rootPath, tsConfigPath) ==
    IF calls = <<>> THEN metadataMap
    ELSE LET call == Head(calls)
             rest == Tail(calls)
             Skip == MethodChainLoop(fs, project, rest, sourceFile, metadataMap,
                                     rootPath, tsConfigPath)
         IN  IF ~MethodMatch(call) THEN Skip
             ELSE IF Len(call.args) < 1 THEN Skip
             ELSE LET method == toLowerCase(MatchedMethod(call))
                      routePath == NormalizeRoutePath(call.args[1])
                      spreadArgs == SelectSeq(call.args, IsSpreadArg)
                  IN  IF Len(spreadArgs) = 0 THEN Skip
                      ELSE LET handlerName == sliceFrom(spreadArgs[1], 3)
                               handlerSourcePath ==
                                   traceHandlerImport(fs, sourceFile, handlerName,
                                                      rootPath, tsConfigPath)
                           IN  IF handlerSourcePath = Null THEN Skip
                               ELSE IF handlerSourcePath \notin DOMAIN project THEN Skip
                               ELSE IF ~HasHandlerJsDoc(project[handlerSourcePath],
                                                        handlerName)
                               THEN Skip
                               ELSE LET jsDocMeta ==
                                            extractJsDocFromHandler(
                                                project[handlerSourcePath], handlerName)
                                    IN  MethodChainLoop(fs, project, rest, sourceFile,
                                            MapSet(metadataMap,
                                                   HandlerKey(method, routePath),
                                                   jsDocMeta),
                                            rootPath, tsConfigPath)

\* parseMethodChain(initializer, ...): the call expressions of the chain are
\* visited outermost first
parseMethodChain(fs, project, chain, sourceFile, metadataMap, rootPath, tsConfigPath) ==
    MethodChainLoop(fs, project, Reverse(chain), sourceFile, metadataMap,
                    rootPath, tsConfigPath)

RECURSIVE AppExportsLoop(_, _, _, _, _, _, _)
\* the for-of loop of discoverHandlersFromRoute over the builder declarations
AppExportsLoop(fs, project, appExports, sourceFile, metadataMap, rootPath, tsConfigPath) ==
    IF appExports = <<>> THEN metadataMap
    ELSE AppExportsLoop(fs, project, Tail(appExports), sourceFile,
             parseMethodChain(fs, project, Head(appExports).chain, sourceFile,
                              metadataMap, rootPath, tsConfigPath),
             rootPath, tsConfigPath)

\* discoverHandlersFromRoute(project, routeFilePath, rootPath, tsConfigPath)
discoverHandlersFromRoute(fs, project, routeFilePath, rootPath, tsConfigPath) ==
    IF routeFilePath \notin DOMAIN project THEN <<>>
    ELSE LET sourceFile == project[routeFilePath]
             HonoInit(decl) == decl.honoInit
         IN  AppExportsLoop(fs, project, SelectSeq(sourceFile.decls, HonoInit),
                            sourceFile, <<>>, rootPath, tsConfigPath)

----------------------------------------------------------------------------
(* core/runGenerate.ts: the merge of one group *)

RECURSIVE SanitizeLoop(_, _)
\* non-alphanumeric runs collapsed to a single separator
SanitizeLoop(s, inRun) ==
    IF s = <<>> THEN <<>>
    ELSE IF IsAlnum(Head(s)) THEN <<Head(s)>> \o SanitizeLoop(Tail(s), FALSE)
    ELSE (IF inRun THEN <<>> ELSE <<"_">>) \o SanitizeLoop(Tail(s), TRUE)

\* sanitizeApiPrefix(prefix) of utils/format
sanitizeApiPrefix(prefix) == SanitizeLoop(prefix, FALSE)

\* cleanDefaultResponse(operation, path, method) of utils/format: it rewrites
\* the default response of the operation and none of its other fields
cleanDefaultResponse(operation, prefixedPath, method) ==
    [operation EXCEPT !.responses = "cleaned"]

IsParamStart(c) == IsUpper(c) \/ IsLower(c) \/ c = "_"
IsParamChar(c) == IsAlnum(c) \/ c = "_"

RECURSIVE ParamEnd(_, _)
\* the index of the last character of the parameter name that starts at i
ParamEnd(s, i) ==
    IF i < Len(s) /\ IsParamChar(s[i + 1]) THEN ParamEnd(s, i + 1) ELSE i

\* the colon form of the parameters left as it is
ParamsKept(s) == s

RECURSIVE ParamsToBraces(_)
\* routePath.replace(/:([a-zA-Z_][a-zA-Z0-9_]*)/g, "{$1}")
ParamsToBraces(s) ==
    IF s = <<>> THEN <<>>
    ELSE IF Head(s) = ":" /\ Len(s) >= 2 /\ IsParamStart(s[2])
    THEN LET e == ParamEnd(s, 2)
         IN  <<"{">> \o SubSeq(s, 2, e) \o <<"}">> \o ParamsToBraces(SubSeq(s, e + 1, Len(s)))
    ELSE <<Head(s)>> \o ParamsToBraces(Tail(s))

\* the join without the removal of the trailing slashes
PrefixedPathUnstripped(apiPrefix, p) == Or(join(apiPrefix, p), Slash)

\* path.posix.join(prefix, p).replace(/\/+$/, "") || "/"
PrefixedPath(apiPrefix, p) == Or(StripTrailingSlashes(join(apiPrefix, p)), Slash)

OpKey(method, prefixedPath) == toLowerCase(method) \o <<" ">> \o prefixedPath

RECURSIVE CustomApiLoop(_, _, _)
\* for (const customApi of apiGroup.api) customApiMap.set(...)
CustomApiLoop(apiPrefix, api, customApiMap) ==
    IF api = <<>> THEN customApiMap
    ELSE LET customApi == Head(api)
             fullPath == PrefixedPath(apiPrefix, customApi.api)
         IN  CustomApiLoop(apiPrefix, Tail(api),
                 MapSet(customApiMap, OpKey(customApi.method, fullPath), customApi))

BuildCustomApiMap(apiGroup) == CustomApiLoop(apiGroup.apiPrefix, apiGroup.api, <<>>)

RECURSIVE RemapLoop(_, _, _)
\* for (const [key, metadata] of jsDocMapRaw.entries()) jsDocMap.set(...)
RemapLoop(apiPrefix, entries, jsDocMap) ==
    IF entries = <<>> THEN jsDocMap
    ELSE LET pieces == SplitOn(Head(entries).key, " ", <<>>, <<>>)
             method == pieces[1]
             routePath == pieces[2]
             normalizedPath == ParamsToBraces(routePath)
             prefixedPath == PrefixedPath(apiPrefix, normalizedPath)
             prefixedKey == method \o <<" ">> \o prefixedPath
         IN  RemapLoop(apiPrefix, Tail(entries),
                       MapSet(jsDocMap, prefixedKey, Head(entries).value))

TagsPresent(tags) == tags # UndefinedList /\ Len(tags) > 0

\* lines 165-171: the handler annotation
ApplyJsDoc(operation, jsDocMeta) ==
    [operation EXCEPT
        !.summary = Or(jsDocMeta.summary, operation.summary),
        !.description = Or(jsDocMeta.description, operation.description),
        !.tags = IF TagsPresent(jsDocMeta.tags) THEN jsDocMeta.tags ELSE operation.tags]

\* the override written over the fields whether it has a value or not
ApplyCustomApiBlanking(operation, customApi) ==
    [operation EXCEPT
        !.summary = customApi.summary,
        !.description = customApi.description,
        !.tags = IF TagsPresent(customApi.tag) THEN customApi.tag ELSE operation.tags]

\* lines 174-182: the configuration override
ApplyCustomApi(operation, customApi) ==
    [operation EXCEPT
        !.summary = Or(customApi.summary, operation.summary),
        !.description = Or(customApi.description, operation.description),
        !.tags = IF TagsPresent(customApi.tag) THEN customApi.tag ELSE operation.tags]

\* the name of the group appended without looking for it in the list
EnsureGroupTagAppends(operation, name) ==
    IF ~TagsPresent(operation.tags) THEN [operation EXCEPT !.tags = <<name>>]
    ELSE [operation EXCEPT !.tags = Append(operation.tags, name)]

\* lines 185-189: the tag of the group
EnsureGroupTag(operation, name) ==
    IF ~TagsPresent(operation.tags) THEN [operation EXCEPT !.tags = <<name>>]
    ELSE IF ~Includes(operation.tags, name)
    THEN [operation EXCEPT !.tags = Append(operation.tags, name)]
    ELSE operation

\* the body of the loop over the operations of a path (lines 155-191)
MergeOperation(operation, method, prefixedPath, customApiMap, jsDocMap, name) ==
    LET opKey == OpKey(method, prefixedPath)
        withJsDoc == IF MapHas(jsDocMap, opKey)
                     THEN ApplyJsDoc(operation, MapGet(jsDocMap, opKey))
                     ELSE operation
        withCustom == IF MapHas(customApiMap, opKey)
                      THEN ApplyCustomApi(withJsDoc, MapGet(customApiMap, opKey))
                      ELSE withJsDoc
    IN  cleanDefaultResponse(EnsureGroupTag(withCustom, name), prefixedPath, method)

\* merged.paths[prefixedPath][method] = operation
StoreOperation(paths, prefixedPath, method, operation) ==
    MapSet(paths, prefixedPath, MapSet(MapGet(paths, prefixedPath), method, operation))

RECURSIVE OperationsLoop(_, _, _, _, _, _)
\* for (const [method, operation] of Object.entries(operations))
OperationsLoop(operations, prefixedPath, customApiMap, jsDocMap, name, paths) ==
    IF operations = <<>> THEN paths
    ELSE LET method == Head(operations).key
             operation == MergeOperation(Head(operations).value, method, prefixedPath,
                                         customApiMap, jsDocMap, name)
         IN  OperationsLoop(Tail(operations), prefixedPath, customApiMap, jsDocMap, name,
                            StoreOperation(paths, prefixedPath, method, operation))

RECURSIVE PathsLoop(_, _, _, _, _)
\* for (const [pathKey, operations] of Object.entries(json.paths))
PathsLoop(jsonPaths, apiGroup, customApiMap, jsDocMap, paths) ==
    IF jsonPaths = <<>> THEN paths
    ELSE LET prefixedPath == PrefixedPath(apiGroup.apiPrefix, Head(jsonPaths).key)
             opened == IF MapHas(paths, prefixedPath) THEN paths
                       ELSE MapSet(paths, prefixedPath, <<>>)
         IN  PathsLoop(Tail(jsonPaths), apiGroup, customApiMap, jsDocMap,
                       OperationsLoop(Head(jsonPaths).value, prefixedPath, customApiMap,
                                      jsDocMap, apiGroup.name, opened))

FragmentFile(apiGroup) == sanitizeApiPrefix(apiGroup.apiPrefix)

\* one iteration of the merge loop (lines 100-195) for a group whose
\* fragment file exists: the merged document after it
MergeGroup(fs, project, cfg, rootPath, apiGroup, files, doc) ==
    LET json == MapGet(files, FragmentFile(apiGroup))
        customApiMap == BuildCustomApiMap(apiGroup)
        jsDocMapRaw == discoverHandlersFromRoute(fs, project,
                           join(rootPath, apiGroup.appTypePath), rootPath,
                           cfg.tsConfigPath)
        jsDocMap == RemapLoop(apiGroup.apiPrefix, jsDocMapRaw, <<>>)
    IN  [doc EXCEPT
            !.tags = Append(doc.tags, [name |-> apiGroup.name]),
            !.paths = PathsLoop(json.paths, apiGroup, customApiMap, jsDocMap, doc.paths)]

----------------------------------------------------------------------------
(* The source tree the functions are run on *)

\* process.cwd(): "/p"
RootPath == <<"/", "p">>
\* "tsconfig.json"
TsConfigPath == <<"t", "s", "c", "o", "n", "f", "i", "g", ".", "j", "s", "o", "n">>
\* "src/i.ts", the entry module
AppPath == <<"s", "r", "c", "/", "i", ".", "t", "s">>

\* tsconfig.json: { compilerOptions: { paths: { "~/*": ["./src/*"] } } }
TsConfig ==
    [parsed |-> TRUE, hasPaths |-> TRUE,
     paths |-> << [alias |-> <<"~", "/", "*">>, targets |-> << <<".", "/", "s", "r", "c", "/", "*">> >>] >>,
     baseUrl |-> Undefined]

\* the identifiers the entry module mounts
Id_ua == <<"u", "a">>
Id_ub == <<"u", "b">>
Id_uc == <<"u", "c">>
Id_ud == <<"u", "d">>
Id_ue == <<"u", "e">>

\* import { ua } from "./r/ua";   src/r/ua.ts exists
\* import { ub } from "./r/ub";   no such file
\* import uc from "./r/uc";       a default import; src/r/uc.ts exists
\* import { ud } from "~/r/a-b";  through the alias; src/r/a-b.ts exists
\* import { ue } from "r/ue";     under src by convention; src/r/ue.ts exists
EntryImports ==
    << [named |-> <<Id_ua>>, moduleSpecifier |-> <<".", "/", "r", "/", "u", "a">>],
       [named |-> <<Id_ub>>, moduleSpecifier |-> <<".", "/", "r", "/", "u", "b">>],
       [named |-> <<>>,      moduleSpecifier |-> <<".", "/", "r", "/", "u", "c">>],
       [named |-> <<Id_ud>>, moduleSpecifier |-> <<"~", "/", "r", "/", "a", "-", "b">>],
       [named |-> <<Id_ue>>, moduleSpecifier |-> <<"r", "/", "u", "e">>] >>

File_entry == <<"/", "p", "/", "s", "r", "c", "/", "i", ".", "t", "s">>
File_ua == <<"/", "p", "/", "s", "r", "c", "/", "r", "/", "u", "a", ".", "t", "s">>
File_uc == <<"/", "p", "/", "s", "r", "c", "/", "r", "/", "u", "c", ".", "t", "s">>
File_ud == <<"/", "p", "/", "s", "r", "c", "/", "r", "/", "a", "-", "b", ".", "t", "s">>
File_ue == <<"/", "p", "/", "s", "r", "c", "/", "r", "/", "u", "e", ".", "t", "s">>

Call(method, args) == [method |-> method, args |-> args]

M_route == <<"r", "o", "u", "t", "e">>
M_use == <<"u", "s", "e">>

\* .route("/a", ua)  .route("/b", ub)  .route('/c', uc)  .route("/d", ud)
\* .route("/e", ue)  .route("/x")  .use("/m", ua)
MountCalls ==
    { Call(M_route, << <<"\"", "/", "a", "\"">>, Id_ua >>),
      Call(M_route, << <<"\"", "/", "b", "\"">>, Id_ub >>),
      Call(M_route, << <<"'", "/", "c", "'">>, Id_uc >>),
      Call(M_route, << <<"\"", "/", "d", "\"">>, Id_ud >>),
      Call(M_route, << <<"\"", "/", "e", "\"">>, Id_ue >>),
      Call(M_route, << <<"\"", "/", "x", "\"">> >>),
      Call(M_use, << <<"\"", "/", "m", "\"">>, Id_ua >>) }

----------------------------------------------------------------------------
(* The filename conventions, applied to every filename of a bounded set *)

MaxStem == 3

StemChars == {"a", "B", "-", "_"}

Stems == UNION { [1..n -> StemChars] : n \in 1..MaxStem }

\* ".ts", ".js", ".tsx" and no extension
Extensions == { ExtTs, ExtJs, <<".", "t", "s", "x">>, <<>> }

Filenames == { stem \o ext : stem \in Stems, ext \in Extensions }

Idle == <<>>

RunIdle ==
    /\ config = Idle /\ ioLog = Idle /\ normalizedApis = Idle /\ disk = Idle
    /\ merged = Idle /\ gi = 0 /\ output = Idle /\ err = ""

NameInit ==
    /\ pc = "filename"
    /\ arg \in Filenames
    /\ ret = Idle
    /\ RunIdle

\* generatePrefixFromFilename(filename) and generateNameFromFilename(filename)
GenerateFromFilename ==
    /\ pc = "filename"
    /\ ret' = [prefix |-> generatePrefixFromFilename(arg),
               name |-> generateNameFromFilename(arg)]
    /\ pc' = "named"
    /\ UNCHANGED <<arg, runVars>>

NameNext == GenerateFromFilename

SpecName == NameInit /\ [][NameNext]_vars

----------------------------------------------------------------------------
(* discoverRoutesFromApp, applied to every entry module of a bounded set *)

MaxCalls == 3

CallSeqs == UNION { [1..n -> MountCalls] : n \in 0..MaxCalls }

RECURSIVE Statements(_, _, _)
\* The statements of an entry module that holds the calls in this order:
\* breaks[i] says that a statement ends after call i
Statements(calls, breaks, i) ==
    IF i > Len(calls) THEN <<>>
    ELSE LET rest == Statements(calls, breaks, i + 1)
         IN  IF i = Len(calls) \/ breaks[i]
             THEN << <<calls[i]>> >> \o rest
             ELSE << <<calls[i]>> \o Head(rest) >> \o Tail(rest)

EntryFile(statements) ==
    [filePath |-> File_entry, imports |-> EntryImports,
     statements |-> statements, decls |-> <<>>]

EntryFiles ==
    { EntryFile(Statements(calls, breaks, 1)) :
        calls \in CallSeqs, breaks \in [1..MaxCalls -> BOOLEAN] }

DiscoveryFs == [files |-> {File_entry, File_ua, File_uc, File_ud, File_ue},
                tsConfig |-> TsConfig]

DiscoverInit ==
    /\ pc = "entry"
    /\ arg \in EntryFiles
    /\ ret = Idle
    /\ RunIdle

\* discoverRoutesFromApp(project, appPath, rootPath, tsConfigPath)
Discover ==
    /\ pc = "entry"
    /\ ret' = discoverRoutesFromApp(DiscoveryFs, [f \in {File_entry} |-> arg],
                                    AppPath, RootPath, TsConfigPath)
    /\ pc' = "discovered"
    /\ UNCHANGED <<arg, runVars>>

DiscoverNext == Discover

SpecDiscover == DiscoverInit /\ [][DiscoverNext]_vars

----------------------------------------------------------------------------
(* The route modules, the handler module and the entry modules of the tree *)

Tag(tagName, comment) == [tagName |-> tagName, comment |-> comment]
JsDoc(description, tags) == [description |-> description, tags |-> tags]
Decl(name, honoInit, jsDocs, chain) ==
    [name |-> name, honoInit |-> honoInit, jsDocs |-> jsDocs, chain |-> chain]
Import(named, moduleSpecifier) == [named |-> named, moduleSpecifier |-> moduleSpecifier]
\* a call of the chain that a doc-comment immediately precedes
DocCall(method, args, jsDocs) == [method |-> method, args |-> args, jsDocs |-> jsDocs]

M_get == <<"g", "e", "t">>
M_post == <<"p", "o", "s", "t">>
Id_h1 == <<"h", "1">>
Id_h2 == <<"h", "2">>
\* an inline handler, (c) => c.json(...)
InlineHandler == <<"f", "n">>

\* src/r/h.ts
\*   /** List  @summary Sj  @description Dj  @tags Us, T1 */
\*   export const h1 = ...
\*   /** @tags T1 */
\*   export const h2 = ...
File_h == <<"/", "p", "/", "s", "r", "c", "/", "r", "/", "h", ".", "t", "s">>
Src_h ==
    [filePath |-> File_h, imports |-> <<>>, statements |-> <<>>,
     decls |-> << Decl(Id_h1, FALSE,
                       << JsDoc(<<"L", "i", "s", "t">>, << Tag("summary", <<"S", "j">>),
                                            Tag("description", <<"D", "j">>),
                                            Tag("tags", <<"U", "s", ",", " ", "T", "1">>) >>) >>, <<>>),
                  Decl(Id_h2, FALSE,
                       << JsDoc(<<>>, << Tag("tags", <<"T", "1">>) >>) >>, <<>>) >>]

\* src/r/ua.ts
\*   import { h1, h2 } from "./h";
\*   /** @name Us */
\*   export const ua = new Hono()
\*     .get("/", ...h1).get("/u/:id", ...h2).post("/", (c) => ...)
\*     /** @summary Sb  @tags Tb */
\*     .get("/b", (c) => ...)
Src_ua ==
    [filePath |-> File_ua,
     imports |-> << Import(<<Id_h1, Id_h2>>, <<".", "/", "h">>) >>,
     statements |-> <<>>,
     decls |-> << Decl(Id_ua, TRUE,
                       << JsDoc(<<>>, << Tag("name", <<"U", "s">>) >>) >>,
                       << Call(M_get, << <<"\"", "/", "\"">>, Spread \o Id_h1 >>),
                          Call(M_get, << <<"\"", "/", "u", "/", ":", "i", "d", "\"">>, Spread \o Id_h2 >>),
                          Call(M_post, << <<"\"", "/", "\"">>, InlineHandler >>),
                          DocCall(M_get, << <<"\"", "/", "b", "\"">>, InlineHandler >>,
                                  << JsDoc(<<>>, << Tag("summary", <<"S", "b">>),
                                                    Tag("tags", <<"T", "b">>) >>) >>) >>) >>]

\* src/r/a-b.ts
\*   import { h2 } from "./h";
\*   export const ud = new Hono().get("/", ...h2)
Src_ud ==
    [filePath |-> File_ud,
     imports |-> << Import(<<Id_h2>>, <<".", "/", "h">>) >>,
     statements |-> <<>>,
     decls |-> << Decl(Id_ud, TRUE, <<>>,
                       << Call(M_get, << <<"\"", "/", "\"">>, Spread \o Id_h2 >>) >>) >>]

\* src/r/ue.ts
\*   /** @prefix /a/b  @name */
\*   export const ue = new Hono().get("/", (c) => ...).get("/e", (c) => ...)
Src_ue ==
    [filePath |-> File_ue, imports |-> <<>>, statements |-> <<>>,
     decls |-> << Decl(Id_ue, TRUE,
                       << JsDoc(<<>>, << Tag("prefix", <<"/", "a", "/", "b">>),
                                         Tag("name", Undefined) >>) >>,
                       << Call(M_get, << <<"\"", "/", "\"">>, InlineHandler >>),
                          Call(M_get, << <<"\"", "/", "e", "\"">>, InlineHandler >>) >>) >>]

\* src/r/uc.ts
\*   const base = new Hono()
\*   /** @name Nc */
\*   const uc = new Hono().get("/", (c) => ...)
\*   export default uc
Src_uc ==
    [filePath |-> File_uc, imports |-> <<>>, statements |-> <<>>,
     decls |-> << Decl(<<"b", "a", "s", "e">>, TRUE, <<>>, <<>>),
                  Decl(Id_uc, TRUE,
                       << JsDoc(<<>>, << Tag("name", <<"N", "c">>) >>) >>,
                       << Call(M_get, << <<"\"", "/", "\"">>, InlineHandler >>) >>) >>]

\* src/i.ts:  app.route("/a", ua).route("/b", ub).route("/a/b", ue)
Src_entry ==
    EntryFile(<< << Call(M_route, << <<"\"", "/", "a", "\"">>, Id_ua >>),
                    Call(M_route, << <<"\"", "/", "b", "\"">>, Id_ub >>),
                    Call(M_route, << <<"\"", "/", "a", "/", "b", "\"">>, Id_ue >>) >> >>)

\* src/j.ts:  app.route("/a-b", ud); app.route("/a/b", ue);
File_entryJ == <<"/", "p", "/", "s", "r", "c", "/", "j", ".", "t", "s">>
Src_entryJ ==
    [EntryFile(<< << Call(M_route, << <<"\"", "/", "a", "-", "b", "\"">>, Id_ud >>) >>,
                  << Call(M_route, << <<"\"", "/", "a", "/", "b", "\"">>, Id_ue >>) >> >>)
        EXCEPT !.filePath = File_entryJ]

\* the ts-morph project: the source file at each path of the tree
Project ==
    (File_entry :> Src_entry) @@ (File_entryJ :> Src_entryJ) @@ (File_h :> Src_h)
    @@ (File_ua :> Src_ua) @@ (File_uc :> Src_uc) @@ (File_ud :> Src_ud)
    @@ (File_ue :> Src_ue)

Fs == [files |-> DOMAIN Project, tsConfig |-> TsConfig]

\* the module paths as the configuration and the discovery give them
Path_ua == <<"s", "r", "c", "/", "r", "/", "u", "a", ".", "t", "s">>
Path_ud == <<"s", "r", "c", "/", "r", "/", "a", "-", "b", ".", "t", "s">>
Path_ue == <<"s", "r", "c", "/", "r", "/", "u", "e", ".", "t", "s">>
Path_uc == <<"s", "r", "c", "/", "r", "/", "u", "c", ".", "t", "s">>

----------------------------------------------------------------------------
(* The per-group generators (generateTypes, generateOpenApi): one fragment
   per group, holding the operations of the group's module with the
   generator's own summary, description and tags *)

Operation(summary, description, tags) ==
    [summary |-> summary, description |-> description, tags |-> tags,
     responses |-> "default"]

\* the auto-generated fields a generator run gives to the operations
AutoOperations ==
    { Operation(Undefined, Undefined, UndefinedList),
      Operation(<<>>, <<"D", "a">>, <<>>),
      Operation(<<"S", "a">>, <<>>, << <<"T", "a">> >>) }

Route(p, methods) == [path |-> p, methods |-> methods]

\* the paths and methods of the operations of each route module
RoutesOf(appTypePath) ==
    IF appTypePath = Path_ua
    THEN << Route(<<"/">>, <<M_get, M_post>>), Route(<<"/", "u", "/", "{", "i", "d", "}">>, <<M_get>>),
            Route(<<"/", "b">>, <<M_get>>) >>
    ELSE IF appTypePath = Path_ue
    THEN << Route(<<"/">>, <<M_get>>), Route(<<"/", "e">>, <<M_get>>) >>
    ELSE << Route(<<"/">>, <<M_get>>) >>

\* the fragment document of a module
Fragment(routes, auto) ==
    [paths |-> [i \in DOMAIN routes |->
                  [key |-> routes[i].path,
                   value |-> [j \in DOMAIN routes[i].methods |->
                                 [key |-> routes[i].methods[j], value |-> auto]]]]]

\* the routes with their method keys in capitals ("GET")
UpperMethods(routes) ==
    [i \in DOMAIN routes |->
        Route(routes[i].path, [j \in DOMAIN routes[i].methods |-> toUpperCase(routes[i].methods[j])])]

\* fragment files the merge cannot use: a text that is not JSON, and a JSON
\* document without paths
BrokenFragments == { [text |-> <<"{">>], [openapi |-> "3.0.0"] }

\* JSON.parse(fs.readFileSync(openApiFile, "utf-8")) returns
Parses(file) == "text" \notin DOMAIN file

\* Object.entries(json.paths) returns
HasPaths(file) == "paths" \in DOMAIN file

\* What a generator run for a group leaves behind: a fragment file, no file,
\* or an exception
GeneratorOutcomes(apiGroup) ==
    { [kind |-> "throws", json |-> Fragment(<<>>, Operation(Undefined, Undefined, UndefinedList))],
      [kind |-> "nothing", json |-> Fragment(<<>>, Operation(Undefined, Undefined, UndefinedList))] }
    \cup { [kind |-> "written", json |-> Fragment(RoutesOf(apiGroup.appTypePath), auto)] :
             auto \in AutoOperations }
    \cup { [kind |-> "written", json |-> file] : file \in BrokenFragments }
    \cup { [kind |-> "written",
            json |-> Fragment(UpperMethods(RoutesOf(apiGroup.appTypePath)),
                              Operation(<<"S", "a">>, <<>>, << <<"T", "a">> >>))] }

----------------------------------------------------------------------------
(* The configurations *)

MaxGroups == 2

CustomApi(api, method, summary, description, tag) ==
    [api |-> api, method |-> method, summary |-> summary,
     description |-> description, tag |-> tag]

Name_N == <<"N">>

\* { apiPrefix: "/a", appTypePath: "src/r/ua.ts", name: "N", api: [
\*     { api: "/", method: "GET", summary: "So", description: "" },
\*     { api: "/u/{id}", method: "get", summary: "", description: "Do", tag: ["N"] },
\*     { api: "/", method: "post", summary: "So", tag: [] },
\*     { api: "/b/", method: "get", tag: ["To"] } ] }
NamedGroup ==
    ApiGroup(<<"/", "a">>, Path_ua, Name_N,
        << CustomApi(<<"/">>, <<"G", "E", "T">>, <<"S", "o">>, <<>>, UndefinedList),
           CustomApi(<<"/", "u", "/", "{", "i", "d", "}">>, M_get, <<>>, <<"D", "o">>, << Name_N >>),
           CustomApi(<<"/">>, M_post, <<"S", "o">>, Undefined, <<>>),
           CustomApi(<<"/", "b", "/">>, M_get, Undefined, Undefined, << <<"T", "o">> >>) >>)

\* the entries config.apis is made of
ApiInputs ==
    { StringApi(Path_ua), StringApi(Path_ud), StringApi(Path_ue), GroupApi(NamedGroup) }

ApiLists == UNION { [1..n -> ApiInputs] : n \in 0..MaxGroups }

\* "src/k.ts": no such file
AppPath_k == <<"s", "r", "c", "/", "k", ".", "t", "s">>
AppPath_j == <<"s", "r", "c", "/", "j", ".", "t", "s">>

AppPaths == { AppPath, AppPath_j, AppPath_k }

Config(appPath, hasApis, apis) ==
    [exists |-> TRUE, tsConfigPath |-> TsConfigPath, openApi |-> "3.0.0",
     outputs |-> "openapi.json", appPath |-> appPath, hasApis |-> hasApis, apis |-> apis]

\* the configuration files a run may be given: appPath alone, apis alone,
\* neither, both, and a path at which there is no configuration file
ConfigFiles ==
    { Config(a, FALSE, <<>>) : a \in AppPaths }
    \cup { Config(Undefined, TRUE, l) : l \in ApiLists }
    \cup { Config(Undefined, FALSE, <<>>) }
    \cup { Config(a, TRUE, l) : a \in {AppPath, AppPath_j},
                                l \in { x \in ApiLists : Len(x) <= 1 } }
    \cup { [Config(Undefined, FALSE, <<>>) EXCEPT !.exists = FALSE] }

----------------------------------------------------------------------------
(* core/runGenerate.ts: runGenerate(configPath) *)

Log(event) == ioLog' = Append(ioLog, event)

Fail(message) == pc' = "failed" /\ err' = message

Init ==
    /\ pc = "start"
    /\ arg \in ConfigFiles
    /\ ret = Idle
    /\ config = Idle
    /\ ioLog = <<>>
    /\ normalizedApis = <<>>
    /\ disk = <<>>
    /\ merged = Idle
    /\ gi = 0
    /\ output = <<>>
    /\ err = ""

\* line 15: const config = await loadConfig(configPath)
LoadConfig ==
    /\ pc = "start"
    /\ Log("loadConfig")
    /\ IF arg.exists
       THEN config' = arg /\ pc' = "project" /\ UNCHANGED err
       ELSE Fail("Could not load config") /\ UNCHANGED config
    /\ UNCHANGED <<arg, ret, normalizedApis, disk, merged, gi, output>>

\* lines 18-20: new Project({ tsConfigFilePath }) reads the tsconfig
InitProject ==
    /\ pc = "project"
    /\ Log("readTsConfig")
    /\ pc' = "validate"
    /\ UNCHANGED <<arg, ret, config, normalizedApis, disk, merged, gi, output, err>>

\* line 33: config.appPath, config.apis as conditions
AppPathSet(cfg) == Truthy(cfg.appPath)

\* an empty apis array taken for no apis
ApisNotEmpty(cfg) == cfg.hasApis /\ Len(cfg.apis) > 0

ApisSet(cfg) == cfg.hasApis

\* the check for neither appPath nor apis left out
ValidateOnlyBoth ==
    /\ pc = "validate"
    /\ IF AppPathSet(config) /\ ApisSet(config)
       THEN Fail("Config error: cannot use both 'appPath' and 'apis'")
       ELSE pc' = "discover" /\ UNCHANGED err
    /\ UNCHANGED <<arg, ret, config, ioLog, normalizedApis, disk, merged, gi, output>>

\* lines 33-43: either appPath or apis, not both
Validate ==
    /\ pc = "validate"
    /\ IF AppPathSet(config) /\ ApisSet(config)
       THEN Fail("Config error: cannot use both 'appPath' and 'apis'")
       ELSE IF ~AppPathSet(config) /\ ~ApisSet(config)
       THEN Fail("Config error: must provide either 'appPath' or 'apis'")
       ELSE pc' = "discover" /\ UNCHANGED err
    /\ UNCHANGED <<arg, ret, config, ioLog, normalizedApis, disk, merged, gi, output>>

\* lines 49-58: the groups of the entry module, each normalized
DiscoveredApis(cfg) ==
    LET discoveredRoutes ==
            discoverRoutesFromApp(Fs, Project, cfg.appPath, RootPath, cfg.tsConfigPath)
    IN  [i \in DOMAIN discoveredRoutes |->
            normalizeApiGroup(GroupApi(discoveredRoutes[i]), Project, RootPath)]

\* lines 61-63: the groups of config.apis, each normalized
ListedApis(cfg) ==
    [i \in DOMAIN cfg.apis |-> normalizeApiGroup(cfg.apis[i], Project, RootPath)]

\* lines 45-64: discover or normalize the API groups
DiscoverOrNormalize ==
    /\ pc = "discover"
    /\ Log("readSources")
    /\ IF AppPathSet(config)
       THEN IF join(RootPath, config.appPath) \in DOMAIN Project
            THEN /\ normalizedApis' = DiscoveredApis(config)
                 /\ pc' = "generate" /\ gi' = 1 /\ UNCHANGED err
            ELSE Fail("File not found") /\ UNCHANGED <<normalizedApis, gi>>
       ELSE IF \A i \in DOMAIN config.apis : CanLoad(config.apis[i], Project, RootPath)
            THEN /\ normalizedApis' = ListedApis(config)
                 /\ pc' = "generate" /\ gi' = 1 /\ UNCHANGED err
            ELSE Fail("File not found") /\ UNCHANGED <<normalizedApis, gi>>
    /\ UNCHANGED <<arg, ret, config, disk, merged, output>>

\* lines 75-91: one iteration of the generation loop
GenerateGroup ==
    /\ pc = "generate"
    /\ gi <= Len(normalizedApis)
    /\ Log("generate")
    /\ \E outcome \in GeneratorOutcomes(normalizedApis[gi]) :
          IF outcome.kind = "throws"
          THEN Fail("generator failed") /\ UNCHANGED <<disk, gi>>
          ELSE /\ disk' = IF outcome.kind = "written"
                          THEN MapSet(disk, FragmentFile(normalizedApis[gi]), outcome.json)
                          ELSE disk
               /\ gi' = gi + 1
               /\ UNCHANGED <<pc, err>>
    /\ UNCHANGED <<arg, ret, config, normalizedApis, merged, output>>

\* lines 93-98: const merged = { ...config.openApi, tags: [], paths: {} }
BeginMerge ==
    /\ pc = "generate"
    /\ gi > Len(normalizedApis)
    /\ merged' = [openApi |-> config.openApi, tags |-> <<>>, paths |-> <<>>]
    /\ pc' = "merge"
    /\ gi' = 1
    /\ UNCHANGED <<arg, ret, config, ioLog, normalizedApis, disk, output, err>>

FragmentExists(apiGroup) == MapHas(disk, FragmentFile(apiGroup))

\* the missing fragment file raising an error
SkipMissingFragmentThrows ==
    /\ pc = "merge"
    /\ gi <= Len(normalizedApis)
    /\ ~FragmentExists(normalizedApis[gi])
    /\ Log("existsFragment")
    /\ Fail("Missing OpenAPI file")
    /\ UNCHANGED <<arg, ret, config, normalizedApis, disk, merged, gi, output>>

\* the tag of the group recorded before the fragment file is looked for
SkipMissingFragmentTagged ==
    /\ pc = "merge"
    /\ gi <= Len(normalizedApis)
    /\ ~FragmentExists(normalizedApis[gi])
    /\ Log("existsFragment")
    /\ merged' = [merged EXCEPT !.tags = Append(@, [name |-> normalizedApis[gi].name])]
    /\ gi' = gi + 1
    /\ UNCHANGED <<pc, arg, ret, config, normalizedApis, disk, output, err>>

\* lines 104-107: the fragment file is missing: warn and continue
SkipMissingFragment ==
    /\ pc = "merge"
    /\ gi <= Len(normalizedApis)
    /\ ~FragmentExists(normalizedApis[gi])
    /\ Log("existsFragment")
    /\ gi' = gi + 1
    /\ UNCHANGED <<pc, arg, ret, config, normalizedApis, disk, merged, output, err>>

FragmentOf(apiGroup) == MapGet(disk, FragmentFile(apiGroup))

\* line 108: the fragment file is not JSON: JSON.parse throws
ParseFragmentThrows ==
    /\ pc = "merge"
    /\ gi <= Len(normalizedApis)
    /\ FragmentExists(normalizedApis[gi])
    /\ ~Parses(FragmentOf(normalizedApis[gi]))
    /\ ioLog' = ioLog \o <<"existsFragment", "readFragment">>
    /\ Fail("Unexpected end of JSON input")
    /\ UNCHANGED <<arg, ret, config, normalizedApis, disk, merged, gi, output>>

\* lines 108-148: the fragment has no paths: the tag of the group is pushed
\* and Object.entries(json.paths) throws
MergePathsThrows ==
    /\ pc = "merge"
    /\ gi <= Len(normalizedApis)
    /\ FragmentExists(normalizedApis[gi])
    /\ Parses(FragmentOf(normalizedApis[gi]))
    /\ ~HasPaths(FragmentOf(normalizedApis[gi]))
    /\ ioLog' = ioLog \o <<"existsFragment", "readFragment">>
    /\ merged' = [merged EXCEPT !.tags = Append(@, [name |-> normalizedApis[gi].name])]
    /\ Fail("Cannot convert undefined or null to object")
    /\ UNCHANGED <<arg, ret, config, normalizedApis, disk, gi, output>>

\* the document written to the output file after each merged group
MergeFragmentFlushes ==
    /\ pc = "merge"
    /\ gi <= Len(normalizedApis)
    /\ FragmentExists(normalizedApis[gi])
    /\ Parses(FragmentOf(normalizedApis[gi]))
    /\ HasPaths(FragmentOf(normalizedApis[gi]))
    /\ ioLog' = ioLog \o <<"existsFragment", "readFragment", "writeOutput">>
    /\ merged' = MergeGroup(Fs, Project, config, RootPath, normalizedApis[gi], disk, merged)
    /\ output' = <<merged'>>
    /\ gi' = gi + 1
    /\ UNCHANGED <<pc, arg, ret, config, normalizedApis, disk, err>>

\* lines 109-194: the fragment file exists: merge the group
MergeFragment ==
    /\ pc = "merge"
    /\ gi <= Len(normalizedApis)
    /\ FragmentExists(normalizedApis[gi])
    /\ Parses(FragmentOf(normalizedApis[gi]))
    /\ HasPaths(FragmentOf(normalizedApis[gi]))
    /\ ioLog' = ioLog \o <<"existsFragment", "readFragment">>
    /\ merged' = MergeGroup(Fs, Project, config, RootPath, normalizedApis[gi], disk, merged)
    /\ gi' = gi + 1
    /\ UNCHANGED <<pc, arg, ret, config, normalizedApis, disk, output, err>>

\* lines 197-202: write the merged document
WriteOutput ==
    /\ pc = "merge"
    /\ gi > Len(normalizedApis)
    /\ ioLog' = ioLog \o <<"mkdir", "writeOutput">>
    /\ output' = Append(output, merged)
    /\ pc' = "done"
    /\ UNCHANGED <<arg, ret, config, normalizedApis, disk, merged, gi, err>>

Next ==
    \/ LoadConfig
    \/ InitProject
    \/ Validate
    \/ DiscoverOrNormalize
    \/ GenerateGroup
    \/ BeginMerge
    \/ SkipMissingFragment
    \/ ParseFragmentThrows
    \/ MergePathsThrows
    \/ MergeFragment
    \/ WriteOutput

Spec == Init /\ [][Next]_vars

----------------------------------------------------------------------------
(* normalizeApiGroup, applied to every input of a bounded set: a module path
   or a group without a name, over a module whose builder value carries the
   markers @name and @prefix, one of them, an empty one, or no doc-comment *)

\* the comment of a marker: none (the marker is absent), the marker without
\* text, or a text
NameComments == { <<>>, Undefined, <<"U", "s">>, <<"M", "y", " ", "A", "p", "i">> }
PrefixComments == { <<>>, Undefined, <<"/", "x">>, <<"/", "x", "/", "y">>, <<"x", "/">> }

Id_app == <<"a", "p", "p">>
Id_other == <<"o", "t", "h", "e", "r">>

\* the tags of a doc-comment: <<>> as the comment stands for no marker
MarkerTags(nameComment, prefixComment) ==
    (IF prefixComment = <<>> THEN <<>> ELSE << Tag("prefix", prefixComment) >>)
    \o (IF nameComment = <<>> THEN <<>> ELSE << Tag("name", nameComment) >>)

\* the declarations of a route module: no builder value, a builder value
\* without doc-comment (alone, after a documented value that is no builder,
\* before a documented second builder value), one with a doc-comment, and
\* one with a doc-comment followed by a second, differently annotated
\* builder value
ModuleDecls ==
    { <<>>, << Decl(Id_app, TRUE, <<>>, <<>>) >>,
      << Decl(Id_app, TRUE, <<>>, <<>>),
         Decl(Id_other, TRUE, << JsDoc(<<>>, MarkerTags(<<"N", "o">>, <<"/", "n", "o">>)) >>, <<>>) >>,
      << Decl(Id_other, FALSE, << JsDoc(<<>>, MarkerTags(<<"N", "o">>, <<"/", "n", "o">>)) >>, <<>>),
         Decl(Id_app, TRUE, <<>>, <<>>) >> }
    \cup { << Decl(Id_app, TRUE, << JsDoc(<<>>, MarkerTags(n, p)) >>, <<>>) >> :
             n \in NameComments, p \in PrefixComments }
    \cup { << Decl(Id_app, TRUE, << JsDoc(<<>>, MarkerTags(n, p)) >>, <<>>),
              Decl(Id_other, TRUE, << JsDoc(<<>>, MarkerTags(<<"N", "o">>, <<"/", "n", "o">>)) >>, <<>>) >> :
             n \in NameComments, p \in PrefixComments }

ModuleFilenames == { <<"-", ".", "t", "s">>, <<"u", "a", ".", "t", "s">>, <<"u", "s", "e", "r", "-", "p", "r", "o", "f", "i", "l", "e", ".", "t", "s">>, <<"a", "p", "i", "K", "e", "y", "s", ".", "j", "s">> }

ModuleDir == <<"s", "r", "c", "/", "r", "/">>

\* the first argument of a mount call as written: "/m", '/m/', "m"
MountPrefixArgs == { <<"\"", "/", "m", "\"">>, <<"'", "/", "m", "/", "'">>, <<"\"", "m", "\"">> }

\* the inputs of normalizeApiGroup for the module at p: the bare path, a
\* discovered group (name "", the prefix of its mount call), a group
\* without name
NamelessApis(p) ==
    { StringApi(p),
      GroupApi(ApiGroup(<<"/", "m">>, p, Undefined, <<>>)) }
    \cup { GroupApi(ApiGroup(RemoveQuotes(a), p, <<>>, <<>>)) : a \in MountPrefixArgs }

\* a group of config.apis that carries its name
NamedApis(p) ==
    { GroupApi(ApiGroup(<<"/", "m">>, p, Name_N,
                        << CustomApi(<<"/">>, M_get, <<"S", "o">>, <<>>, UndefinedList) >>)) }

NormalizeInit ==
    /\ pc = "api"
    /\ \E filename \in ModuleFilenames, decls \in ModuleDecls :
          \E api \in NamelessApis(ModuleDir \o filename) \cup NamedApis(ModuleDir \o filename) :
             arg = [api |-> api, filename |-> filename,
                    sourceFile |-> [filePath |-> join(RootPath, ModuleDir \o filename),
                                    imports |-> <<>>, statements |-> <<>>,
                                    decls |-> decls]]
    /\ ret = Idle
    /\ RunIdle

\* normalizeApiGroup(api, project, rootPath)
Normalize ==
    /\ pc = "api"
    /\ ret' = normalizeApiGroup(arg.api, [f \in {arg.sourceFile.filePath} |-> arg.sourceFile],
                                RootPath)
    /\ pc' = "normalized"
    /\ UNCHANGED <<arg, runVars>>

NormalizeNext == Normalize

SpecNormalize == NormalizeInit /\ [][NormalizeNext]_vars

----------------------------------------------------------------------------
(* The path prefixing of the merge, applied to every prefix and every
   relative path of a bounded set *)

MaxPath == 3

PathChars == {"/", "a", "."}

PathStrings == UNION { [1..n -> PathChars] : n \in 0..MaxPath }

JoinInit ==
    /\ pc = "paths"
    /\ arg \in [apiPrefix : PathStrings, pathKey : PathStrings]
    /\ ret = Idle
    /\ RunIdle

\* lines 149-150, for the path key and for "/", and once more on the result
JoinAndCollapse ==
    /\ pc = "paths"
    /\ ret' = [prefixedPath |-> PrefixedPath(arg.apiPrefix, arg.pathKey),
               root |-> PrefixedPath(arg.apiPrefix, Slash),
               rootAgain |-> PrefixedPath(PrefixedPath(arg.apiPrefix, Slash), Slash)]
    /\ pc' = "joined"
    /\ UNCHANGED <<arg, runVars>>

JoinNext == JoinAndCollapse

SpecJoin == JoinInit /\ [][JoinNext]_vars

----------------------------------------------------------------------------
(* resolveImportPath, applied to every import specifier of a set, from the
   entry module src/i.ts and from a module src/r/x.ts, over every set of
   files of a small tree and with and without an alias table *)

\* the modules that hold the import
ImportingFiles == { File_entry, <<"/", "p", "/", "s", "r", "c", "/", "r", "/", "x", ".", "t", "s">> }

\* the files the tree may hold: /p/src/m.ts, /p/src/m, /p/lib/m.ts, /p/lib/m,
\* /p/alt/m.ts, /p/src/#/m.ts, /p/src/~/m.ts
TreeFiles ==
    { <<"/", "p", "/", "s", "r", "c", "/", "m", ".", "t", "s">>, <<"/", "p", "/", "s", "r", "c", "/", "m">>,
      <<"/", "p", "/", "l", "i", "b", "/", "m", ".", "t", "s">>, <<"/", "p", "/", "l", "i", "b", "/", "m">>,
      <<"/", "p", "/", "a", "l", "t", "/", "m", ".", "t", "s">>, <<"/", "p", "/", "s", "r", "c", "/", "#", "/", "m", ".", "t", "s">>,
      <<"/", "p", "/", "s", "r", "c", "/", "~", "/", "m", ".", "t", "s">> }

\* "./m", "../lib/m", "~/m", "#/m", "m"
ImportPaths ==
    { <<".", "/", "m">>, <<".", ".", "/", "l", "i", "b", "/", "m">>, <<"~", "/", "m">>, <<"#", "/", "m">>, <<"m">> }

AliasEntry(alias, targets) == [alias |-> alias, targets |-> targets]

Paths(entries) == [parsed |-> TRUE, hasPaths |-> TRUE, paths |-> entries, baseUrl |-> Undefined]

\* no tsconfig that parses; { "~/*": ["lib/*", "alt/*"] };
\* { "#/*": ["lib/*"], "~/*": ["alt/*"] }; { "m": ["lib/m"] };
\* { "*": ["lib/*"] }
AliasTables ==
    { NoTsConfig,
      Paths(<< AliasEntry(<<"*">>, << <<"l", "i", "b", "/", "*">> >>) >>),
      Paths(<< AliasEntry(<<"~", "/", "*">>, << <<"l", "i", "b", "/", "*">>, <<"a", "l", "t", "/", "*">> >>) >>),
      Paths(<< AliasEntry(<<"#", "/", "*">>, << <<"l", "i", "b", "/", "*">> >>), AliasEntry(<<"~", "/", "*">>, << <<"a", "l", "t", "/", "*">> >>) >>),
      Paths(<< AliasEntry(<<"m">>, << <<"l", "i", "b", "/", "m">> >>) >>) }

ResolveInit ==
    /\ pc = "import"
    /\ arg \in [files : SUBSET TreeFiles, tsConfig : AliasTables,
                 tsConfigPath : {TsConfigPath, Undefined}, importPath : ImportPaths,
                 currentFilePath : ImportingFiles]
    /\ ret = Idle
    /\ RunIdle

Resolve ==
    /\ pc = "import"
    /\ ret' = resolveImportPath([files |-> arg.files, tsConfig |-> arg.tsConfig],
                                arg.currentFilePath, arg.importPath, RootPath,
                                arg.tsConfigPath)
    /\ pc' = "resolved"
    /\ UNCHANGED <<arg, runVars>>

ResolveNext == Resolve

SpecResolve == ResolveInit /\ [][ResolveNext]_vars

----------------------------------------------------------------------------
(* The annotation extractors, applied to every doc-comment of up to
   MaxMarkers markers: through the tag list (parseJsDocTags,
   extractRouteMetadata) and through the raw text
   (extractLeadingJsDocComment) *)

MaxMarkers == 3

MarkerKinds == {"summary", "description", "tags", "name", "prefix"}

MarkerValues == { <<"A">>, <<"B">> }

MarkerLists == UNION { [1..n -> [kind : MarkerKinds, value : MarkerValues]] : n \in 0..MaxMarkers }

KindText(kind) ==
    CASE kind = "summary" -> <<"s", "u", "m", "m", "a", "r", "y">>
      [] kind = "description" -> <<"d", "e", "s", "c", "r", "i", "p", "t", "i", "o", "n">>
      [] kind = "tags" -> <<"t", "a", "g", "s">>
      [] kind = "name" -> <<"n", "a", "m", "e">>
      [] kind = "prefix" -> <<"p", "r", "e", "f", "i", "x">>

\* the doc-comment as ts-morph gives it: one tag per marker, in textual order
StructuredComment(markers) ==
    JsDoc(<<>>, [i \in DOMAIN markers |-> Tag(markers[i].kind, markers[i].value)])

\* the text between "/**" and "*/": one line " * @kind value" per marker
CommentContent(markers) ==
    LET Line(i) == <<" ", "*", " ", "@">> \o KindText(markers[i].kind)
                   \o <<" ">> \o markers[i].value \o <<"\n">>
        Text[i \in 0..Len(markers)] == IF i = 0 THEN <<"\n">> ELSE Text[i - 1] \o Line(i)
    IN  Text[Len(markers)] \o <<" ">>

MarkersInit ==
    /\ pc = "comment"
    /\ arg \in MarkerLists
    /\ ret = Idle
    /\ RunIdle

\* parseJsDocTags on the doc-comment of a handler bundle
ParseTags ==
    /\ pc = "comment"
    /\ ret' = parseJsDocTags(StructuredComment(arg))
    /\ pc' = "parsed"
    /\ UNCHANGED <<arg, runVars>>

\* extractRouteMetadata on a module whose builder value carries the doc-comment
ExtractMetadata ==
    /\ pc = "comment"
    /\ ret' = extractRouteMetadata(
                  [filePath |-> File_ua, imports |-> <<>>, statements |-> <<>>,
                   decls |-> << Decl(Id_app, TRUE, << StructuredComment(arg) >>, <<>>) >>])
    /\ pc' = "metadata"
    /\ UNCHANGED <<arg, runVars>>

\* extractLeadingJsDocComment on the text of the doc-comment, after an
\* earlier comment block
ExtractLeading ==
    /\ pc = "comment"
    /\ ret' = extractLeadingJsDocComment(<< <<" ", "@", "s", "u", "m", "m", "a", "r", "y", " ", "Z", " ">>, CommentContent(arg) >>)
    /\ pc' = "leading"
    /\ UNCHANGED <<arg, runVars>>

MarkersNext == ParseTags \/ ExtractMetadata \/ ExtractLeading

SpecMarkers == MarkersInit /\ [][MarkersNext]_vars

----------------------------------------------------------------------------
(* Claims *)

\* The group the merge loop has gone through last
MergedGroup == normalizedApis[gi - 1]

\* the merge loop has just merged the fragment of a group
JustMerged == pc \in {"merge", "done"} /\ gi > 1 /\ FragmentExists(MergedGroup)

TrimSlash(p) == IF Len(p) > 1 /\ p[Len(p)] = "/" THEN SubSeq(p, 1, Len(p) - 1) ELSE p

\* the path under which a group serves the path p of its module
Mounted(prefix, p) == IF TrimSlash(p) = <<"/">> THEN prefix ELSE prefix \o TrimSlash(p)

SameMethod(a, b) == toLowerCase(a) = toLowerCase(b)

Absent(field) == IF field \in {"tags", "tag"} THEN UndefinedList ELSE Undefined

\* the field of the configuration override a group gives for an operation:
\* of the last one if several are given, absent if none is
OverrideField(group, pathKey, method, field) ==
    LET Matches(o) == /\ SameMethod(o.method, method)
                      /\ Mounted(group.apiPrefix, o.api) = Mounted(group.apiPrefix, pathKey)
        found == SelectSeq(group.api, Matches)
    IN  IF found = <<>> THEN Absent(field) ELSE found[Len(found)][field]

NotClosingBrace(c) == c # "}"

\* "/u/{id}" as the route module writes it: "/u/:id"
ColonPath(p) == SelectSeq([i \in DOMAIN p |-> IF p[i] = "{" THEN ":" ELSE p[i]], NotClosingBrace)

\* the field of the annotation of the handler of an operation, absent if the
\* handler has no annotation
AnnotationField(group, pathKey, method, field) ==
    LET handlers == discoverHandlersFromRoute(Fs, Project, join(RootPath, group.appTypePath),
                                              RootPath, TsConfigPath)
        key == toLowerCase(method) \o <<" ">> \o ColonPath(pathKey)
    IN  IF MapHas(handlers, key) THEN MapGet(handlers, key)[field] ELSE Absent(field)

NonEmptyValue(v) == v # Undefined /\ v # <<>>
NonEmptyTags(t) == t # UndefinedList /\ t # <<>>

Priority(override, annotation, auto) ==
    IF NonEmptyValue(override) THEN override
    ELSE IF NonEmptyValue(annotation) THEN annotation
    ELSE auto

HasStored(prefix, pathKey, method) ==
    /\ MapHas(merged.paths, Mounted(prefix, pathKey))
    /\ MapHas(MapGet(merged.paths, Mounted(prefix, pathKey)), method)

Stored(prefix, pathKey, method) ==
    MapGet(MapGet(merged.paths, Mounted(prefix, pathKey)), method)

\* the operations of the fragment of a group: [pathKey, method, auto]
OperationsOf(group) ==
    LET json == MapGet(disk, FragmentFile(group))
    IN  UNION { { [pathKey |-> json.paths[i].key, method |-> json.paths[i].value[j].key,
                   auto |-> json.paths[i].value[j].value] : j \in DOMAIN json.paths[i].value } :
                i \in DOMAIN json.paths }

TagsBeforeGroup(group, op) ==
    IF NonEmptyTags(OverrideField(group, op.pathKey, op.method, "tag"))
    THEN OverrideField(group, op.pathKey, op.method, "tag")
    ELSE IF NonEmptyTags(AnnotationField(group, op.pathKey, op.method, "tags"))
    THEN AnnotationField(group, op.pathKey, op.method, "tags")
    ELSE op.auto.tags

Occurrences(s, x) == Cardinality({ i \in DOMAIN s : s[i] = x })

\* C2: every operation stored in the merged document has a non-empty tags
\* list that contains the name of the group that wrote it: exactly
\* [group.name] if the operation has no tags after annotation and override,
\* otherwise the existing tags with group.name appended only if it is not
\* among them.
C2_GroupTag ==
    JustMerged =>
        \A op \in OperationsOf(MergedGroup) :
            LET tags == Stored(MergedGroup.apiPrefix, op.pathKey, op.method).tags
                before == TagsBeforeGroup(MergedGroup, op)
            IN  /\ tags # UndefinedList
                /\ tags # <<>>
                /\ Includes(tags, MergedGroup.name)
                /\ IF ~NonEmptyTags(before) THEN tags = << MergedGroup.name >>
                   ELSE IF Includes(before, MergedGroup.name) THEN tags = before
                   ELSE tags = Append(before, MergedGroup.name)
                /\ Occurrences(tags, MergedGroup.name)
                     = IF NonEmptyTags(before) /\ Includes(before, MergedGroup.name)
                       THEN Occurrences(before, MergedGroup.name) ELSE 1

\* the merged group has an operation without tags, which gets the name of
\* the group alone, one whose tags hold the name already, which keeps them,
\* and one with other tags, to which the name is appended
C2_Witness ==
    /\ JustMerged
    /\ \E op \in OperationsOf(MergedGroup) :
          /\ ~NonEmptyTags(TagsBeforeGroup(MergedGroup, op))
          /\ Stored(MergedGroup.apiPrefix, op.pathKey, op.method).tags = << MergedGroup.name >>
    /\ \E op \in OperationsOf(MergedGroup) :
          /\ NonEmptyTags(TagsBeforeGroup(MergedGroup, op))
          /\ Includes(TagsBeforeGroup(MergedGroup, op), MergedGroup.name)
          /\ Stored(MergedGroup.apiPrefix, op.pathKey, op.method).tags
               = TagsBeforeGroup(MergedGroup, op)
    /\ \E op \in OperationsOf(MergedGroup) :
          /\ NonEmptyTags(TagsBeforeGroup(MergedGroup, op))
          /\ ~Includes(TagsBeforeGroup(MergedGroup, op), MergedGroup.name)
          /\ Len(Stored(MergedGroup.apiPrefix, op.pathKey, op.method).tags)
               = Len(TagsBeforeGroup(MergedGroup, op)) + 1

TagOf(group) == [name |-> group.name]

MissingFragmentNext ==
    pc = "merge" /\ gi <= Len(normalizedApis) /\ ~FragmentExists(normalizedApis[gi])

\* C4: a group whose fragment file is absent at merge time is skipped
\* without an error: the step adds no path to the merged document and the
\* loop goes on (the merge fails on a fragment it has read, never on a
\* missing one); every group whose fragment exists is merged and the output
\* file is written.
C4_MissingFragmentSkipped ==
    /\ [][MissingFragmentNext =>
            /\ merged'.paths = merged.paths
            /\ pc' = "merge"
            /\ gi' = gi + 1
            /\ err' = err]_vars
    /\ [](pc = "failed" /\ merged # Idle => ioLog[Len(ioLog)] = "readFragment")
    /\ [](pc = "done" =>
            /\ output = << merged >>
            /\ \A i \in DOMAIN normalizedApis :
                  FragmentExists(normalizedApis[i]) =>
                      \A op \in OperationsOf(normalizedApis[i]) :
                          HasStored(normalizedApis[i].apiPrefix, op.pathKey, op.method)
            /\ \A k \in DOMAIN merged.paths :
                  \E i \in DOMAIN normalizedApis :
                      /\ FragmentExists(normalizedApis[i])
                      /\ \E op \in OperationsOf(normalizedApis[i]) :
                            Mounted(normalizedApis[i].apiPrefix, op.pathKey) = merged.paths[k].key)

\* the run is done and its output written; of its two groups the first had
\* no fragment file and the paths of the second are in the output
C4_Witness ==
    /\ pc = "done"
    /\ Len(output) = 1
    /\ Len(normalizedApis) = 2
    /\ ~FragmentExists(normalizedApis[1])
    /\ FragmentExists(normalizedApis[2])
    /\ output[1].paths # <<>>

ConfigErrors ==
    { "Config error: cannot use both 'appPath' and 'apis'",
      "Config error: must provide either 'appPath' or 'apis'" }

HasAppPath(cfg) == cfg.appPath # Undefined
HasApis(cfg) == cfg.hasApis

\* the run has gone past its validation step
Validated == arg.exists /\ pc \notin {"start", "project", "validate"}

StepEvents == { "readSources", "generate", "existsFragment", "readFragment", "mkdir", "writeOutput" }

\* C5: a configuration with both appPath and apis set, or with neither, makes
\* runGenerate fail with an error before any route discovery, group
\* normalization, generation or merge, and no output is written; a
\* configuration with exactly one of the two passes the validation.
C5_ExactlyOneSource ==
    Validated =>
        IF HasAppPath(arg) <=> HasApis(arg)
        THEN /\ pc = "failed"
             /\ err = IF HasAppPath(arg)
                      THEN "Config error: cannot use both 'appPath' and 'apis'"
                      ELSE "Config error: must provide either 'appPath' or 'apis'"
             /\ normalizedApis = <<>>
             /\ disk = <<>>
             /\ merged = Idle
             /\ output = <<>>
             /\ \A i \in DOMAIN ioLog : ioLog[i] \notin StepEvents
        ELSE err \notin ConfigErrors

\* a configuration with appPath and an empty apis list has failed the
\* validation
C5_Witness ==
    /\ pc = "failed"
    /\ HasAppPath(arg)
    /\ HasApis(arg)
    /\ arg.apis = <<>>
    /\ err \in ConfigErrors

\* C6 as stated: the mutual-exclusivity failure occurs before any file I/O:
\* no configuration-file load, no tsconfig read and no source-file read
\* precedes it.
C6_FailsBeforeAnyIO ==
    pc = "failed" /\ err \in ConfigErrors => ioLog = <<>>

\* C6 amended: the mutual-exclusivity failure occurs after the load of the
\* configuration file and the tsconfig read of the project initialization
\* and before any other file I/O of the run (route discovery, generation,
\* fragment reads, output); the two failing cases fail in the same way.
C6_FailsBeforeSources ==
    Validated /\ (HasAppPath(arg) <=> HasApis(arg)) =>
        /\ pc = "failed"
        /\ err \in ConfigErrors
        /\ ioLog = <<"loadConfig", "readTsConfig">>

\* a configuration with neither appPath nor apis has failed the validation
C6_Witness ==
    /\ pc = "failed"
    /\ ~HasAppPath(arg)
    /\ ~HasApis(arg)
    /\ err \in ConfigErrors
    /\ Len(ioLog) = 2

\* f without its extension: the text before the last "." of f, a leading "."
\* not starting an extension
StripExtension(f) ==
    LET dots == { i \in DOMAIN f : f[i] = "." /\ i > 1 }
    IN  IF dots = {} THEN f
        ELSE SubSeq(f, 1, (CHOOSE i \in dots : \A j \in dots : j <= i) - 1)

RECURSIVE WordsOf(_, _, _)
\* The words of s: a hyphen or an underscore ends a word and is dropped, an
\* upper-case letter starts a new word; empty words are not kept
WordsOf(s, cur, acc) ==
    LET flushed == IF cur = <<>> THEN acc ELSE Append(acc, cur)
    IN  IF s = <<>> THEN flushed
        ELSE IF Head(s) \in {"-", "_"} THEN WordsOf(Tail(s), <<>>, flushed)
        ELSE IF IsUpper(Head(s)) THEN WordsOf(Tail(s), <<Head(s)>>, flushed)
        ELSE WordsOf(Tail(s), Append(cur, Head(s)), acc)

TitleCase(s) ==
    LET words == WordsOf(s, <<>>, <<>>)
    IN  JoinWith([i \in DOMAIN words |-> <<UpperChar(words[i][1])>> \o Tail(words[i])],
                 <<" ">>)

\* C10: for every filename f the derived prefix is "/" followed by f without
\* its extension, and the derived name is f without its extension split on
\* hyphens, underscores and upper-case boundaries, empty words discarded,
\* each word capitalized, joined by single spaces; "user-profile.ts" gives
\* "/user-profile" and "User Profile", "api-keys.ts" gives "Api Keys",
\* "accounts.ts" gives "/accounts" and "Accounts".
C10_FilenameConvention ==
    /\ generatePrefixFromFilename(<<"u", "s", "e", "r", "-", "p", "r", "o", "f", "i", "l", "e", ".", "t", "s">>) = <<"/", "u", "s", "e", "r", "-", "p", "r", "o", "f", "i", "l", "e">>
    /\ generateNameFromFilename(<<"u", "s", "e", "r", "-", "p", "r", "o", "f", "i", "l", "e", ".", "t", "s">>) = <<"U", "s", "e", "r", " ", "P", "r", "o", "f", "i", "l", "e">>
    /\ generateNameFromFilename(<<"a", "p", "i", "-", "k", "e", "y", "s", ".", "t", "s">>) = <<"A", "p", "i", " ", "K", "e", "y", "s">>
    /\ generatePrefixFromFilename(<<"a", "c", "c", "o", "u", "n", "t", "s", ".", "t", "s">>) = <<"/", "a", "c", "c", "o", "u", "n", "t", "s">>
    /\ generateNameFromFilename(<<"a", "c", "c", "o", "u", "n", "t", "s", ".", "t", "s">>) = <<"A", "c", "c", "o", "u", "n", "t", "s">>
    /\ pc = "named" =>
          /\ ret.prefix = <<"/">> \o StripExtension(arg)
          /\ ret.name = TitleCase(StripExtension(arg))

\* the calls of the entry module in the order in which they are written
RECURSIVE TextualCalls(_)
TextualCalls(statements) ==
    IF statements = <<>> THEN <<>>
    ELSE Head(statements) \o TextualCalls(Tail(statements))

\* the module each mounted identifier of the entry module resolves to in the
\* source tree, relative to the project root; <<>> when it resolves to none
ResolvedModule(appName) ==
    IF appName = Id_ua THEN <<"s", "r", "c", "/", "r", "/", "u", "a", ".", "t", "s">>
    ELSE IF appName = Id_ud THEN <<"s", "r", "c", "/", "r", "/", "a", "-", "b", ".", "t", "s">>
    ELSE IF appName = Id_ue THEN <<"s", "r", "c", "/", "r", "/", "u", "e", ".", "t", "s">>
    ELSE <<>>

IsMount(call) == call.method = M_route /\ Len(call.args) >= 2

IsResolvedMount(call) == IsMount(call) /\ ResolvedModule(call.args[2]) # <<>>

DeclaredGroups ==
    IF HasApis(config) THEN normalizedApis
    ELSE LET mounts == SelectSeq(TextualCalls(Project[join(RootPath, config.appPath)].statements),
                                 IsResolvedMount)
         IN  [i \in DOMAIN mounts |->
                CHOOSE g \in { normalizedApis[n] : n \in DOMAIN normalizedApis } :
                    /\ g.apiPrefix = RemoveQuotes(mounts[i].args[1])
                    /\ g.appTypePath = ResolvedModule(mounts[i].args[2])]

\* the key (prefixed path, method) is one of the operations of the fragment
\* of the group
Produces(group, prefixedPath, method) ==
    /\ FragmentExists(group)
    /\ \E op \in OperationsOf(group) :
          Mounted(group.apiPrefix, op.pathKey) = prefixedPath /\ op.method = method

\* C8: every (prefixed path, method) key of the merged document holds one
\* operation, and when two groups produce the same key the operation of the
\* later-declared group is the one in the final document.
C8_LastDeclaredWins ==
    pc = "done" =>
        /\ \A i, j \in DOMAIN merged.paths :
              merged.paths[i].key = merged.paths[j].key => i = j
        /\ \A k \in DOMAIN merged.paths :
              /\ \A i, j \in DOMAIN merged.paths[k].value :
                    merged.paths[k].value[i].key = merged.paths[k].value[j].key => i = j
              /\ \A m \in DOMAIN merged.paths[k].value :
                    LET prefixedPath == merged.paths[k].key
                        method == merged.paths[k].value[m].key
                        ProducesKey(g) == Produces(g, prefixedPath, method)
                        producers == SelectSeq(DeclaredGroups, ProducesKey)
                    IN  /\ producers # <<>>
                        /\ Includes(merged.paths[k].value[m].value.tags,
                                    producers[Len(producers)].name)

MarkerOf(sourceFile, tagName) ==
    LET builders == { i \in DOMAIN sourceFile.decls : sourceFile.decls[i].honoInit }
        first == CHOOSE i \in builders : \A j \in builders : i <= j
        docs == sourceFile.decls[first].jsDocs
        marked == IF builders = {} \/ docs = <<>> THEN {}
                  ELSE { k \in DOMAIN docs[1].tags : docs[1].tags[k].tagName = tagName }
    IN  IF marked = {} THEN Undefined
        ELSE docs[1].tags[CHOOSE k \in marked : TRUE].comment

\* C11: on an input without a name normalizeApiGroup yields the name of the
\* module annotation's @name when present and non-empty, else the
\* filename-derived name; on a bare module path it yields the prefix of the
\* annotation's @prefix when present and non-empty, else the
\* filename-derived prefix.
C11_AnnotationThenFilename ==
    (pc = "normalized" /\ ~NonEmptyValue(arg.api.group.name)) =>
        LET name == MarkerOf(arg.sourceFile, "name")
            prefix == MarkerOf(arg.sourceFile, "prefix")
        IN  /\ ret.name = IF NonEmptyValue(name) THEN name
                          ELSE generateNameFromFilename(arg.filename)
            /\ arg.api.isString =>
                  ret.apiPrefix = IF NonEmptyValue(prefix) THEN prefix
                                  ELSE generatePrefixFromFilename(arg.filename)

\* a bare module path over a module whose annotation has a @name and a
\* @prefix without text: the name is the annotation's, the prefix the
\* filename's
C11_Witness ==
    /\ pc = "normalized"
    /\ arg.api.isString
    /\ NonEmptyValue(MarkerOf(arg.sourceFile, "name"))
    /\ MarkerOf(arg.sourceFile, "prefix") = Undefined
    /\ \E k \in DOMAIN arg.sourceFile.decls[1].jsDocs[1].tags :
          arg.sourceFile.decls[1].jsDocs[1].tags[k].tagName = "prefix"
    /\ ret.name = MarkerOf(arg.sourceFile, "name")
    /\ ret.apiPrefix = <<"/">> \o <<"u", "s", "e", "r", "-", "p", "r", "o", "f", "i", "l", "e">>

\* a colon-prefixed parameter token starts at some place of the path
HasColonParam(p) ==
    \E i \in 1..Len(p) - 1 : p[i] = ":" /\ (IsUpper(p[i + 1]) \/ IsLower(p[i + 1]) \/ p[i + 1] = "_")

\* a path of a route module in bracket form: the segment ":x" is "{x}"
BracketSegment(seg) ==
    IF seg # <<>> /\ Head(seg) = ":" THEN <<"{">> \o Tail(seg) \o <<"}">> ELSE seg

BracketPath(p) ==
    LET segs == SplitOn(p, "/", <<>>, <<>>)
    IN  JoinWith([i \in DOMAIN segs |-> BracketSegment(segs[i])], <<"/">>)

HasDoubledSlash(p) == \E i \in 1..Len(p) - 1 : p[i] = "/" /\ p[i + 1] = "/"

\* a prefix as a RouteGroup has it: it begins with "/", has no trailing
\* slash unless it is "/", and no empty, "." or ".." segment
IsGroupPrefix(p) ==
    \/ p = <<"/">>
    \/ /\ p # <<>>
       /\ p[1] = "/"
       /\ LET segs == SplitOn(Tail(p), "/", <<>>, <<>>)
          IN  \A i \in DOMAIN segs : segs[i] \notin { <<>>, <<".">>, <<".", ".">> }

\* C13: joinAndCollapse(prefix, "/") is the prefix for every group prefix,
\* joinAndCollapse("/", "/") is "/", collapsing on the root a second time
\* changes nothing, and for every prefix and relative path the result has no
\* doubled separator and no trailing slash unless it is exactly "/".
C13_JoinAndCollapse ==
    /\ PrefixedPath(<<"/">>, <<"/">>) = <<"/">>
    /\ pc = "joined" =>
          /\ IsGroupPrefix(arg.apiPrefix) => ret.root = arg.apiPrefix
          /\ ret.rootAgain = ret.root
          /\ ~HasDoubledSlash(ret.prefixedPath)
          /\ ret.prefixedPath # <<>>
          /\ ret.prefixedPath[Len(ret.prefixedPath)] = "/" => ret.prefixedPath = <<"/">>

\* a prefix of two segments is joined with a path that ends with slashes
C13_Witness ==
    /\ pc = "joined"
    /\ arg.apiPrefix = <<"/", "a">>
    /\ arg.pathKey = <<"a", "/", "/">>
    /\ ret.prefixedPath = <<"/", "a", "/", "a">>
    /\ ret.root = <<"/", "a">>

----------------------------------------------------------------------------
\* the calls of the builder chains of a group's module that have an inline
\* handler and a doc-comment immediately before them
InlineDocCalls(group) ==
    LET file == join(RootPath, group.appTypePath)
        decls == IF file \in DOMAIN Project THEN Project[file].decls ELSE <<>>
    IN  UNION { { decls[i].chain[j] : j \in { k \in DOMAIN decls[i].chain :
                      /\ "jsDocs" \in DOMAIN decls[i].chain[k]
                      /\ SelectSeq(decls[i].chain[k].args, IsSpreadArg) = <<>> } } :
                i \in { d \in DOMAIN decls : decls[d].honoInit } }

\* the call is the one that declares the operation
DeclaresOperation(call, op) ==
    /\ MethodMatch(call)
    /\ MatchedMethod(call) = toLowerCase(op.method)
    /\ NormalizeRoutePath(call.args[1]) = ColonPath(op.pathKey)

\* C14: the annotation in a doc-comment immediately before a chained call
\* with an inline handler reaches the merged document: where no override
\* gives the field, the operation at the prefixed path and method carries the
\* annotation's summary, description and tags.
C14_InlineAnnotationReaches ==
    JustMerged =>
        \A op \in OperationsOf(MergedGroup) : \A call \in InlineDocCalls(MergedGroup) :
            DeclaresOperation(call, op) =>
                LET annotation == parseJsDocTags(call.jsDocs[1])
                    stored == Stored(MergedGroup.apiPrefix, op.pathKey, op.method)
                IN  /\ HasStored(MergedGroup.apiPrefix, op.pathKey, op.method)
                    /\ \A field \in {"summary", "description"} :
                          stored[field]
                            = Priority(OverrideField(MergedGroup, op.pathKey, op.method, field),
                                       annotation[field], op.auto[field])
                    /\ ( /\ ~NonEmptyTags(OverrideField(MergedGroup, op.pathKey, op.method, "tag"))
                         /\ NonEmptyTags(annotation.tags) )
                       => \A i \in DOMAIN annotation.tags : Includes(stored.tags, annotation.tags[i])

----------------------------------------------------------------------------
\* every group of the run has been gone through by the merge loop
AllGroupsMerged ==
    /\ gi > Len(normalizedApis)
    /\ \A i \in DOMAIN normalizedApis :
          FragmentExists(normalizedApis[i]) =>
              /\ \E t \in DOMAIN merged.tags : merged.tags[t] = TagOf(normalizedApis[i])
              /\ \A op \in OperationsOf(normalizedApis[i]) :
                    HasStored(normalizedApis[i].apiPrefix, op.pathKey, op.method)

\* C15: in every run the output file is written at most once, and only
\* after every group has been merged into the in-memory document; a run that
\* fails (validation, discovery, generation, fragment parsing, merge) has
\* written nothing to the output path.
C15_WrittenOnceAtTheEnd ==
    /\ [][output' # output =>
            /\ output = <<>>
            /\ pc = "merge"
            /\ AllGroupsMerged
            /\ output' = << merged >>
            /\ merged' = merged
            /\ pc' = "done"]_vars
    /\ [](Len(output) <= 1)
    /\ [](Occurrences(ioLog, "writeOutput") = Len(output))
    /\ [](pc = "failed" => output = <<>>)
    /\ [](pc = "done" => output = << merged >> /\ err = "")

\* a run has merged a group, then failed on the fragment of the next one:
\* the in-memory document holds paths and nothing has been written
C15_Witness ==
    /\ pc = "failed"
    /\ gi = 2
    /\ merged # Idle
    /\ merged.paths # <<>>
    /\ ioLog[Len(ioLog)] = "readFragment"
    /\ output = <<>>

----------------------------------------------------------------------------
\* C17: in the merged document every operation is keyed by the lowercase
\* HTTP method: whatever the letter case of the method key in the fragment,
\* the operation is found under the lowercase method, the key the annotation
\* and override lookups use, and no key under the path has another case.
C17_LowercaseMethodKeys ==
    JustMerged =>
        \A op \in OperationsOf(MergedGroup) :
            LET prefixedPath == PrefixedPath(MergedGroup.apiPrefix, op.pathKey)
                operations == MapGet(merged.paths, prefixedPath)
            IN  /\ MapHas(merged.paths, prefixedPath)
                /\ MapHas(operations, toLowerCase(op.method))
                /\ OpKey(op.method, prefixedPath)
                     = toLowerCase(op.method) \o <<" ">> \o prefixedPath
                /\ \A k \in DOMAIN operations :
                      operations[k].key = toLowerCase(operations[k].key)

----------------------------------------------------------------------------
\* the candidate paths of the strategies that apply to a specifier, in the
\* order the strategies are to be tried: the relative path alone for a
\* specifier starting with "."; else the targets of the matching patterns of
\* the alias table, if there is one, followed by the path under src
AliasCandidates(importPath, paths, base) ==
    LET Matching(e) == AliasMatches(e.alias, importPath)
        matching == SelectSeq(paths, Matching)
        TargetsOf(e) == [t \in DOMAIN e.targets |->
                            join(base, ReplaceStars(e.targets[t], AliasCapture(e.alias, importPath)))]
        Flatten[i \in 0..Len(matching)] ==
            IF i = 0 THEN <<>> ELSE Flatten[i - 1] \o TargetsOf(matching[i])
    IN  Flatten[Len(matching)]

StrategyCandidates(a) ==
    IF startsWith(a.importPath, <<".">>)
    THEN << resolve(dirname(a.currentFilePath), a.importPath) >>
    ELSE (IF a.tsConfigPath # Undefined /\ a.tsConfig.parsed /\ a.tsConfig.hasPaths
          THEN AliasCandidates(a.importPath, a.tsConfig.paths, RootPath)
          ELSE <<>>)
         \o << join3(RootPath, SrcDir, a.importPath) >>

\* the files a candidate path stands for: the literal path and the path
\* with ".ts" appended
Hits(files, candidate) == { candidate, candidate \o ExtTs } \cap files

FirstHit(files, candidates) ==
    IF \E i \in DOMAIN candidates : Hits(files, candidates[i]) # {}
    THEN CHOOSE i \in DOMAIN candidates :
            /\ Hits(files, candidates[i]) # {}
            /\ \A j \in 1..(i - 1) : Hits(files, candidates[j]) = {}
    ELSE 0

\* C18: resolveImportPath applies its strategies in strict order, first
\* success wins: the relative path for a specifier starting with "."; else
\* the targets, in declared order, of the patterns of the alias table the
\* specifier matches, whenever there is an alias table; else the path under
\* the source directory. The result is a file of the first candidate that
\* has one, and null when none has.
C18_StrategyOrder ==
    pc = "resolved" =>
        LET candidates == StrategyCandidates(arg)
            first == FirstHit(arg.files, candidates)
        IN  IF first = 0 THEN ret = Null
            ELSE ret \in Hits(arg.files, candidates[first])

----------------------------------------------------------------------------
\* the candidate path is the one the result was found at, and both its
\* literal path and its path with ".ts" exist
FoundWithBoth(candidate) ==
    /\ candidate \in arg.files
    /\ candidate \o ExtTs \in arg.files
    /\ ret \in { candidate, candidate \o ExtTs }

\* C19 as stated: within each strategy the literal path is probed first and
\* the path with ".ts" appended second: when both exist, the literal path is
\* the one returned.
C19_LiteralFirst ==
    pc = "resolved" =>
        \A i \in DOMAIN StrategyCandidates(arg) :
            FoundWithBoth(StrategyCandidates(arg)[i]) => ret = StrategyCandidates(arg)[i]

\* C19 amended: within each strategy the path with ".ts" appended is probed
\* first and the literal path second: when both exist, the path with ".ts"
\* is the one returned; the literal path is returned only when the path with
\* ".ts" does not exist.
C19_ExtensionFirst ==
    pc = "resolved" =>
        /\ \A i \in DOMAIN StrategyCandidates(arg) :
              FoundWithBoth(StrategyCandidates(arg)[i])
                  => ret = StrategyCandidates(arg)[i] \o ExtTs
        /\ ret # Null => ret \in arg.files /\ ret \o ExtTs \notin arg.files

\* "~/m" resolves through the alias "~/*" to /p/lib/m.ts while /p/lib/m
\* exists as well
C19_Witness ==
    /\ pc = "resolved"
    /\ arg.importPath = <<"~", "/", "m">>
    /\ { <<"/", "p", "/", "l", "i", "b", "/", "m">>, <<"/", "p", "/", "l", "i", "b", "/", "m", ".", "t", "s">> } \subseteq arg.files
    /\ ret = <<"/", "p", "/", "l", "i", "b", "/", "m", ".", "t", "s">>

----------------------------------------------------------------------------
\* the value of the last marker of a kind in a doc-comment, Undefined when
\* the doc-comment has none
LastMarker(markers, kind) ==
    LET OfKind(m) == m.kind = kind
        found == SelectSeq(markers, OfKind)
    IN  IF found = <<>> THEN Undefined ELSE found[Len(found)].value

\* C20: when a doc-comment carries several markers of the same scalar kind
\* (@summary, @description, @name, @prefix), the extractor returns the value
\* of the last one, through the tag list (parseJsDocTags,
\* extractRouteMetadata) and through the raw text
\* (extractLeadingJsDocComment).
C20_LastMarkerWins ==
    /\ pc \in {"parsed", "leading"} =>
          /\ ret.summary = LastMarker(arg, "summary")
          /\ ret.description = LastMarker(arg, "description")
    /\ pc = "metadata" =>
          /\ ret.name = LastMarker(arg, "name")
          /\ ret.prefix = LastMarker(arg, "prefix")

----------------------------------------------------------------------------
\* a prefix that begins with "/" and has no trailing slash unless it is "/"
IsNormalPrefix(p) ==
    /\ p # <<>>
    /\ p[1] = "/"
    /\ (p[Len(p)] = "/" => p = <<"/">>)

\* where the prefix of a normalized group comes from
PrefixFromMountCall == ~arg.api.isString /\ arg.api.group.name = <<>>
PrefixFromAnnotation == arg.api.isString /\ NonEmptyValue(MarkerOf(arg.sourceFile, "prefix"))
PrefixFromFilename == arg.api.isString /\ ~NonEmptyValue(MarkerOf(arg.sourceFile, "prefix"))

\* C21: every group that normalizeApiGroup hands to the merge has a prefix
\* that begins with "/" and has no trailing slash unless it is the root "/",
\* whether the prefix came from a mount call's first argument, from an
\* @prefix annotation or from the filename convention.
C21_NormalPrefix ==
    (pc = "normalized" /\ (PrefixFromMountCall \/ PrefixFromAnnotation \/ PrefixFromFilename))
        => IsNormalPrefix(ret.apiPrefix)

----------------------------------------------------------------------------
\* C22: every group that normalizeApiGroup hands to the merge has a
\* non-empty name, for every module path and every annotation content (an
\* absent or empty @name and a filename made only of separators included).
C22_NonEmptyName ==
    pc = "normalized" => NonEmptyValue(ret.name)

----------------------------------------------------------------------------
\* C23: on a group that already carries a prefix normalizeApiGroup changes
\* only the name: the prefix, the module path and the overrides of the result
\* are the input's, also when the module's annotation declares another
\* @prefix; an input with a non-empty name is returned unchanged in every
\* field.
C23_OnlyTheName ==
    (pc = "normalized" /\ ~arg.api.isString) =>
        /\ ret.apiPrefix = arg.api.group.apiPrefix
        /\ ret.appTypePath = arg.api.group.appTypePath
        /\ ret.api = arg.api.group.api
        /\ NonEmptyValue(arg.api.group.name) => ret = arg.api.group

\* a discovered group mounted at "/m" over a module annotated with
\* @prefix /x and @name Us: the result has the prefix "/m" and the name "Us"
C23_Witness ==
    /\ pc = "normalized"
    /\ ~arg.api.isString
    /\ arg.api.group.name = <<>>
    /\ arg.api.group.apiPrefix = <<"/", "m">>
    /\ MarkerOf(arg.sourceFile, "prefix") = <<"/", "x">>
    /\ MarkerOf(arg.sourceFile, "name") = <<"U", "s">>
    /\ ret.apiPrefix = <<"/", "m">>
    /\ ret.name = <<"U", "s">>

----------------------------------------------------------------------------
\* the builder values of a module, in textual order
Builders(sourceFile) ==
    LET HonoInit(decl) == decl.honoInit
    IN  SelectSeq(sourceFile.decls, HonoInit)

\* the text of the marker in the first doc-comment of the first builder
\* value that has a doc-comment; Undefined when there is no such marker
DocumentedMarkerOf(sourceFile, tagName) ==
    LET Documented(decl) == decl.jsDocs # <<>>
        documented == SelectSeq(Builders(sourceFile), Documented)
        OfKind(tag) == tag.tagName = tagName
        marked == IF documented = <<>> THEN <<>>
                  ELSE SelectSeq(documented[1].jsDocs[1].tags, OfKind)
    IN  IF marked = <<>> THEN Undefined ELSE marked[1].comment

\* C24 as stated: the annotation of a module is read from the first
\* doc-commented builder value: when the first builder value has no
\* doc-comment and a later one has, the annotation is the later one's.
C24_FirstDocumentedBuilder ==
    (pc = "normalized" /\ arg.api.isString) =>
        LET name == DocumentedMarkerOf(arg.sourceFile, "name")
            prefix == DocumentedMarkerOf(arg.sourceFile, "prefix")
        IN  /\ NonEmptyValue(name) => ret.name = name
            /\ NonEmptyValue(prefix) => ret.apiPrefix = prefix

\* C24 amended: the annotation of a module is read from its first builder
\* value alone: when that value has no doc-comment the annotation is empty
\* (name and prefix follow the filename), whatever doc-comment a later
\* builder value has; when it has one, a later builder value's doc-comment
\* plays no part.
C24_FirstBuilderOnly ==
    (pc = "normalized" /\ arg.api.isString /\ Builders(arg.sourceFile) # <<>>) =>
        LET first == Builders(arg.sourceFile)[1]
            alone == [arg.sourceFile EXCEPT !.decls = << first >>]
        IN  /\ first.jsDocs = <<>> =>
                  /\ ret.name = generateNameFromFilename(arg.filename)
                  /\ ret.apiPrefix = generatePrefixFromFilename(arg.filename)
            /\ ret.name = IF NonEmptyValue(DocumentedMarkerOf(alone, "name"))
                          THEN DocumentedMarkerOf(alone, "name")
                          ELSE generateNameFromFilename(arg.filename)
            /\ ret.apiPrefix = IF NonEmptyValue(DocumentedMarkerOf(alone, "prefix"))
                               THEN DocumentedMarkerOf(alone, "prefix")
                               ELSE generatePrefixFromFilename(arg.filename)

\* a module whose first builder value has no doc-comment and whose second
\* one is annotated @name No, @prefix /no: the name and the prefix of the
\* bare path "src/r/ua.ts" are "Ua" and "/ua"
C24_Witness ==
    /\ pc = "normalized"
    /\ arg.api.isString
    /\ Len(Builders(arg.sourceFile)) = 2
    /\ Builders(arg.sourceFile)[1].jsDocs = <<>>
    /\ DocumentedMarkerOf(arg.sourceFile, "name") = <<"N", "o">>
    /\ ret.name = <<"U", "a">>
    /\ ret.apiPrefix = <<"/", "u", "a">>

----------------------------------------------------------------------------
\* the operation is one of the module: the module has a route with its
\* path and its method
OperationOfModule(op, appTypePath) ==
    \E i \in DOMAIN RoutesOf(appTypePath) :
        /\ RoutesOf(appTypePath)[i].path = op.pathKey
        /\ \E j \in DOMAIN RoutesOf(appTypePath)[i].methods :
              SameMethod(RoutesOf(appTypePath)[i].methods[j], op.method)

\* C25: each group is merged from the fragment generated from its own
\* module: the operations of the fragment the merge loop reads for a group
\* are operations of the module of that group, also when the prefixes of
\* two groups sanitize to the same file name.
C25_OwnFragment ==
    JustMerged =>
        \A op \in OperationsOf(MergedGroup) :
            OperationOfModule(op, MergedGroup.appTypePath)

----------------------------------------------------------------------------
\* C26: a specifier that starts with "." is resolved by the relative
\* strategy only: the result is a file at the resolved path (the path itself
\* or the path with ".ts") and null when there is none, also when a file
\* matches under the alias table or the source directory; for every
\* specifier, with or without a tsconfig that parses, the function returns
\* an existing file or null.
C26_RelativeOnly ==
    pc = "resolved" =>
        /\ ret = Null \/ ret \in arg.files
        /\ startsWith(arg.importPath, <<".">>) =>
              LET hits == Hits(arg.files, resolve(dirname(arg.currentFilePath), arg.importPath))
              IN  IF hits = {} THEN ret = Null ELSE ret \in hits

\* "./m" in src/r/x.ts with neither src/r/m nor src/r/m.ts: the result is
\* null although src/m.ts exists and the alias "*" leads to lib/m.ts
C26_Witness ==
    /\ pc = "resolved"
    /\ arg.importPath = <<".", "/", "m">>
    /\ arg.currentFilePath = <<"/", "p", "/", "s", "r", "c", "/", "r", "/", "x", ".", "t", "s">>
    /\ arg.tsConfigPath = TsConfigPath
    /\ arg.tsConfig.parsed
    /\ arg.tsConfig.paths[1].alias = <<"*">>
    /\ { <<"/", "p", "/", "s", "r", "c", "/", "m", ".", "t", "s">>, <<"/", "p", "/", "l", "i", "b", "/", "m", ".", "t", "s">> } \subseteq arg.files
    /\ ret = Null

====
